---- MODULE Spec2Model ----
(***************************************************************************)
(* Verification model of the-peak: the vehicle terrain follower            *)
(* (client/src/physics, client/src/player/car.ts) and the heightmap        *)
(* generator (client/src/track).                                           *)
(*                                                                         *)
(* Numbers.  JavaScript numbers are modelled as fixed-point integers.      *)
(* Lengths and heights of the vehicle part are in twelfths of a world      *)
(* unit, angles are in steps of 15 degrees (PI/12), smoothing factors are  *)
(* percentages.  Every rounding is toward minus infinity (\div).  A NaN    *)
(* is the record NaNVal; a finite number v is Num(v).                      *)
(***************************************************************************)
EXTENDS Integers, Sequences, FiniteSets, TLC

(***************************************************************************)
(* Bounds of the model.                                                    *)
(***************************************************************************)
\* the terrain under a wheel is HeightStep * (level + bump), level \in 0..MaxLevel
\* chosen per frame and bump \in 0..1 chosen per wheel
MaxLevel == 0

\* vertices per side of the heightmap minus one (POC_TERRAIN_SEGMENTS)
POC_TERRAIN_SEGMENTS == 3

\* samples the road path precomputes (sampleCount of createPOCRoadPath)
SampleCount == 4

\* connections the server sees, and PLAYER_UPDATE events the clients send
MaxSockets == 2

MaxUpdates == 1

\* JOIN_GAME events a session of arbitrary socket clients emits
MaxJoins == 2

\* points of one castRaysAtPoints call
MaxPoints == 2

\* seconds the clock of the error display runs
MaxTime == 8

(***************************************************************************)
(* Small arithmetic helpers.                                               *)
(***************************************************************************)
Abs(v) == IF v < 0 THEN -v ELSE v

MinOf(a, b) == IF a < b THEN a ELSE b

MaxOf(a, b) == IF a > b THEN a ELSE b

\* floor of the square root by bisection, Math.sqrt on the fixed-point grid
RECURSIVE ISqrtIn(_, _, _)
ISqrtIn(n, lo, hi) ==
  IF lo >= hi THEN lo
  ELSE LET mid == (lo + hi + 1) \div 2
       IN IF mid * mid <= n THEN ISqrtIn(n, mid, hi) ELSE ISqrtIn(n, lo, mid - 1)

\* 46340 is the largest root whose square is a 32-bit integer
ISqrt(n) == ISqrtIn(n, 0, MinOf(n, 46340))

\* the sequence <<f[lo], ..., f[hi]>>; every element is computed once
RECURSIVE ArrayOf(_, _, _)
ArrayOf(f, lo, hi) ==
  IF lo > hi THEN <<>>
  ELSE IF lo = hi THEN <<f[lo]>>
  ELSE LET mid == (lo + hi) \div 2
       IN ArrayOf(f, lo, mid) \o ArrayOf(f, mid + 1, hi)

\* the function f restricted to S as a table; every value is computed once
RECURSIVE Memo(_, _)
Memo(f, S) ==
  IF S = {} THEN <<>>
  ELSE LET x == CHOOSE y \in S : TRUE
       IN (x :> f[x]) @@ Memo(f, S \ {x})

RECURSIVE SumSeq(_)
SumSeq(s) == IF s = <<>> THEN 0 ELSE Head(s) + SumSeq(Tail(s))

Num(v) == [nan |-> FALSE, v |-> v]

NaNVal == [nan |-> TRUE, v |-> 0]

\* THREE.MathUtils.clamp
Clamp(v, lo, hi) == MaxOf(lo, MinOf(hi, v))

\* THREE.MathUtils.lerp(x, y, t) = (1 - t) * x + t * y, t given in percent
Lerp(x, y, t) == ((100 - t) * x + t * y) \div 100

\* lerp on possibly-NaN numbers: NaN is absorbing
LerpNum(x, y, t) == IF x.nan \/ y.nan THEN NaNVal ELSE Num(Lerp(x.v, y.v, t))

\* tan(k * 15 degrees) * 1000 for k = 1..5
TanTable == <<268, 577, 1000, 1732, 3732>>

\* Math.atan2(y, x) for x >= 0, rounded toward zero to a multiple of 15 degrees
Atan2(y, x) ==
  LET mag == IF x = 0
             THEN (IF y = 0 THEN 0 ELSE 6)
             ELSE Cardinality({k \in 1..5 : Abs(y) * 1000 >= TanTable[k] * x})
  IN IF y < 0 THEN -mag ELSE mag

(***************************************************************************)
(* Vehicle assets: the wheel candidates a loaded car model offers, in the  *)
(* order detectWheels finds them.  lx, lz: position in the car's local     *)
(* frame (the car faces -X), cy: height of the wheel's bounding-box centre *)
(* above the model origin.                                                 *)
(***************************************************************************)
W(lx, lz, cy) == [lx |-> lx, lz |-> lz, cy |-> cy]

Assets ==
  [ none      |-> <<>>,
    one       |-> << W(-3, 2, 6) >>,
    two       |-> << W(-3, 2, 6), W(-3, -1, 6) >>,
    three     |-> << W(-3, 2, 6), W(-3, -1, 6), W(3, 2, 6) >>,
    four      |-> << W(-3, 2, 6), W(-3, -1, 6), W(3, 2, 6), W(3, -1, 6) >>,
    allFront  |-> << W(-6, 2, 6), W(-6, -1, 6), W(-2, 2, 6), W(-2, -1, 6) >>,
    allLeft   |-> << W(-3, 3, 6), W(3, 3, 6), W(-3, 1, 6), W(3, 1, 6) >>,
    five      |-> << W(-3, 2, 6), W(-3, -1, 6), W(3, 2, 6), W(3, -1, 6), W(0, 0, 6) >> ]

AssetNames == DOMAIN Assets

(***************************************************************************)
(* Program constants (client/src/config/gameConstants.ts), in model units. *)
(***************************************************************************)
\* WHEEL_RADIUS = 0.33 world units, in twelfths
WHEEL_RADIUS == 4

\* heightOffset PlayerCar passes to updateSimple: 0.5 world units, in twelfths
SIMPLE_HEIGHT_OFFSET == 6

\* DEFAULT_CONFIG.minWheels / maxWheels of the wheel system
MinWheels == 2

MaxWheels == 4

\* Math.PI / 4 and Math.PI / 3 in steps of 15 degrees
MAX_PITCH_ANGLE == 3

MAX_ROLL_ANGLE == 4

\* spacing of the terrain heights offered to the wheels, in twelfths
HeightStep == 12

Heights == {HeightStep * k : k \in 0..(MaxLevel + 1)}

(***************************************************************************)
(* WheelSystem (client/src/physics/wheelSystem.ts)                         *)
(***************************************************************************)
\* uniqueWheels.slice(0, maxWheels)
SelectedWheels(candidates) ==
  SubSeq(candidates, 1, MinOf(Len(candidates), MaxWheels))

\* variant: a single wheel is accepted
DetectOk_AnyWheel(candidates) == Len(SelectedWheels(candidates)) >= 1

\* detectWheels succeeds iff at least minWheels wheels were selected
DetectOk(candidates) == Len(SelectedWheels(candidates)) >= MinWheels

\* calculateWheelBottomOffset: average bounding-box centre Y minus the radius
CalcWheelBottomOffset(ws, old) ==
  IF Len(ws) = 0 THEN old
  ELSE SumSeq([i \in 1..Len(ws) |-> ws[i].cy]) \div Len(ws) - WHEEL_RADIUS

\* first element of the stable sort of the indices in S by (k1, k2) ascending;
\* 0 stands for null (no wheel in that quadrant)
FirstSorted(S, k1, k2) ==
  IF S = {} THEN 0
  ELSE CHOOSE i \in S : \A j \in S :
         \/ k1[i] < k1[j]
         \/ k1[i] = k1[j] /\ k2[i] < k2[j]
         \/ k1[i] = k1[j] /\ k2[i] = k2[j] /\ i <= j

NoIndices == [frontLeft |-> 0, frontRight |-> 0, backLeft |-> 0, backRight |-> 0]

\* getWheelIndicesByPosition: negative local X is front, positive local Z is left
GetWheelIndicesByPosition(ws) ==
  IF Len(ws) < 2 THEN NoIndices
  ELSE
    LET I        == 1..Len(ws)
        isFront  == [i \in I |-> ws[i].lx < 0]
        isLeft   == [i \in I |-> ws[i].lz > 0]
        xAsc     == [i \in I |-> ws[i].lx]
        xDesc    == [i \in I |-> -ws[i].lx]
        zAsc     == [i \in I |-> ws[i].lz]
        zDesc    == [i \in I |-> -ws[i].lz]
    IN [frontLeft  |-> FirstSorted({i \in I : isFront[i] /\ isLeft[i]}, xAsc, zDesc),
        frontRight |-> FirstSorted({i \in I : isFront[i] /\ ~isLeft[i]}, xAsc, zAsc),
        backLeft   |-> FirstSorted({i \in I : ~isFront[i] /\ isLeft[i]}, xDesc, zDesc),
        backRight  |-> FirstSorted({i \in I : ~isFront[i] /\ ~isLeft[i]}, xDesc, zAsc)]

\* planar distance between two wheels
PlanarDist(a, b) == ISqrt((a.lx - b.lx) * (a.lx - b.lx) + (a.lz - b.lz) * (a.lz - b.lz))

NoDimensions == [isNull |-> TRUE, wheelbase |-> 0, trackWidth |-> 0]

\* getWheelDimensions: null with fewer than 2 wheels or when both are zero
GetWheelDimensions(ws) ==
  IF Len(ws) < 2 THEN NoDimensions
  ELSE
    LET ix == GetWheelIndicesByPosition(ws)
        wheelbase ==
          IF ix.frontLeft # 0 /\ ix.backLeft # 0
          THEN PlanarDist(ws[ix.frontLeft], ws[ix.backLeft])
          ELSE IF ix.frontRight # 0 /\ ix.backRight # 0
          THEN PlanarDist(ws[ix.frontRight], ws[ix.backRight])
          ELSE 0
        trackWidth ==
          IF ix.frontLeft # 0 /\ ix.frontRight # 0
          THEN PlanarDist(ws[ix.frontLeft], ws[ix.frontRight])
          ELSE IF ix.backLeft # 0 /\ ix.backRight # 0
          THEN PlanarDist(ws[ix.backLeft], ws[ix.backRight])
          ELSE 0
    IN IF wheelbase = 0 /\ trackWidth = 0 THEN NoDimensions
       ELSE [isNull |-> FALSE, wheelbase |-> wheelbase, trackWidth |-> trackWidth]

\* the wheel lists a WheelSystem can hold, and the two queries tabulated over them
WheelLists == {<<>>} \cup {SelectedWheels(Assets[a]) : a \in AssetNames}

WheelIndicesOf == Memo([ws \in WheelLists |-> GetWheelIndicesByPosition(ws)], WheelLists)

WheelDimensionsOf == Memo([ws \in WheelLists |-> GetWheelDimensions(ws)], WheelLists)

(***************************************************************************)
(* State.                                                                  *)
(***************************************************************************)
VARIABLES
  asset,              \* name of the car model the asset loader delivers
  opts,               \* TerrainFollower.options
  isReady,            \* PlayerCar.isReady (the model is loaded)
  wheels,             \* WheelSystem.wheels
  initialized,        \* WheelSystem.initialized
  wheelBottomOffset,  \* WheelSystem.wheelBottomOffset
  posY,               \* model.position.y
  rotX,               \* model.rotation.x (roll)
  rotZ,               \* model.rotation.z (pitch)
  currentPitch,       \* TerrainFollower.currentPitch
  currentRoll,        \* TerrainFollower.currentRoll
  raycastResults,     \* TerrainFollower.raycastResults
  last                \* history: what the latest operation was given and did

VARIABLES
  generator,          \* the HeightmapGenerator object (roadPath, noise2D)
  terrain,            \* what the latest generate() returned
  query               \* the latest getHeightAt call and its return value

carVars == <<asset, opts, isReady, wheels, initialized, wheelBottomOffset, posY,
             rotX, rotZ, currentPitch, currentRoll, raycastResults, last>>

terrainVars == <<generator, terrain, query>>

VARIABLES
  status,             \* per socket: "idle", "connected" or "closed"
  players,            \* GameStateManager.state.players on the server
  toServer,           \* per socket: events in flight from the client
  toClient,           \* per socket: events in flight from the server
  clients             \* per socket: NetworkManager and RemotePlayersManager

netVars == <<status, players, toServer, toClient, clients>>

VARIABLES
  steeringAngle,      \* PlayerCar.steeringAngle, in ten-thousandths of a radian
  keys,               \* InputHandler.keys, the two turn keys
  container,          \* ErrorDisplay.container: textContent and style.display
  timers,             \* deadlines of the pending setTimeout callbacks of show()
  now,                \* the page's clock, in seconds
  shown               \* history: when the latest show() was called, and for how long

pageVars == <<steeringAngle, keys, container, timers, now, shown>>

vars == <<carVars, terrainVars, netVars, pageVars>>

(***************************************************************************)
(* TerrainFollower (client/src/physics/terrainFollower.ts)                 *)
(***************************************************************************)
\* options a follower is constructed with; smoothing factors in percent
Options(rot, hs, rs, ho, maxPitch, maxRoll) ==
  [enableRotation |-> rot, heightSmoothing |-> hs, rotationSmoothing |-> rs,
   heightOffset |-> ho, maxPitchAngle |-> maxPitch, maxRollAngle |-> maxRoll]

\* DEFAULT_OPTIONS
OptDefault == Options(FALSE, 0, 0, 0, MAX_PITCH_ANGLE, MAX_ROLL_ANGLE)

\* rotation following without smoothing, with a height offset
OptRotate == Options(TRUE, 0, 0, 12, MAX_PITCH_ANGLE, MAX_ROLL_ANGLE)

\* rotation following with smoothing factor 1 and with factor 0.5
OptRotateFull == Options(TRUE, 0, 100, 0, MAX_PITCH_ANGLE, MAX_ROLL_ANGLE)

OptRotateHalf == Options(TRUE, 0, 50, 0, 2, 2)

\* height smoothing 0.5
OptHeightHalf == Options(TRUE, 50, 0, 0, MAX_PITCH_ANGLE, MAX_ROLL_ANGLE)

\* the options PlayerCar passes (car.ts:57-64)
OptPlayerCar == Options(TRUE, 25, 15, 0, MAX_PITCH_ANGLE, MAX_ROLL_ANGLE)

\* the (car model, options) pairs explored
Setups ==
  ({"none", "one", "two", "three"} \X
     {OptDefault, OptRotate, OptHeightHalf, OptPlayerCar})
  \cup ({"four"} \X {OptDefault, OptRotate, OptRotateHalf})
  \cup ({"five"} \X {OptRotateFull})
  \cup ({"allFront", "allLeft"} \X {OptRotate})

\* what TerrainRaycaster.castRayDown returns for a ray that hits the mesh at
\* height meshY, or misses it: on a miss the point is (x, 0, z)
CastRayDown(hit, meshY) ==
  [hit |-> hit, pointY |-> IF hit THEN meshY ELSE 0, distance |-> IF hit THEN 50 * 12 - meshY ELSE -1]

\* terrainFollower.ts:106  the ground height update() uses for one wheel;
\* terrainHeight is terrain.getHeightAt at the wheel's position
WheelGroundHeight(result, terrainHeight) == IF result.hit THEN result.pointY ELSE 0

\* terrainFollower.ts:123  average ground height, NaN for zero wheels (0 / 0)
AvgGroundHeight(total, wheelCount) ==
  IF wheelCount = 0 THEN NaNVal ELSE Num(total \div wheelCount)

\* variant: the configured height offset is dropped
TargetY_NoOffset(avg, wbo, heightOffset) ==
  IF avg.nan THEN NaNVal ELSE Num(avg.v - wbo)

\* terrainFollower.ts:125
TargetY(avg, wbo, heightOffset) ==
  IF avg.nan THEN NaNVal ELSE Num(avg.v - wbo + heightOffset)

\* terrainFollower.ts:128-134
SmoothedY(cur, target, heightSmoothing) ==
  IF heightSmoothing > 0 THEN LerpNum(cur, target, heightSmoothing) ELSE target

\* variant: the wheel count is not checked
RotationBranch_AnyCount(o, wheelCount) == o.enableRotation

\* terrainFollower.ts:140
RotationBranch(o, wheelCount) == o.enableRotation /\ wheelCount >= 4

\* terrainFollower.ts:147
DimensionsUsable(d) == ~d.isNull /\ d.wheelbase > 0 /\ d.trackWidth > 0

AllFour(ix) == ix.frontLeft # 0 /\ ix.frontRight # 0 /\ ix.backLeft # 0 /\ ix.backRight # 0

\* variant: the pitch is not clamped
TargetPitch_NoClamp(ix, res, d, maxPitch) ==
  IF AllFour(ix)
  THEN LET frontAvg == (res[ix.frontLeft] + res[ix.frontRight]) \div 2
           backAvg  == (res[ix.backLeft] + res[ix.backRight]) \div 2
       IN Atan2(frontAvg - backAvg, d.wheelbase)
  ELSE 0

\* terrainFollower.ts:152-174
TargetPitch(ix, res, d, maxPitch) ==
  IF AllFour(ix)
  THEN LET frontAvg == (res[ix.frontLeft] + res[ix.frontRight]) \div 2
           backAvg  == (res[ix.backLeft] + res[ix.backRight]) \div 2
       IN Clamp(Atan2(frontAvg - backAvg, d.wheelbase), -maxPitch, maxPitch)
  ELSE 0

\* terrainFollower.ts:177-199
TargetRoll(ix, res, d, maxRoll) ==
  IF AllFour(ix)
  THEN LET leftAvg  == (res[ix.frontLeft] + res[ix.backLeft]) \div 2
           rightAvg == (res[ix.frontRight] + res[ix.backRight]) \div 2
       IN Clamp(Atan2(rightAvg - leftAvg, d.trackWidth), -maxRoll, maxRoll)
  ELSE 0

\* terrainFollower.ts:202-209
SmoothedAngle(cur, target, smoothing) ==
  IF smoothing > 0 THEN Lerp(cur, target, smoothing) ELSE target

\* the record kept in `last`: the operation, the wheel count it saw, whether
\* it wrote the model's rotation, whether every ray hit, whether the terrain
\* under the wheels was level, and whether every wheel whose ray missed got
\* terrain.getHeightAt at its position as ground height
Did(op, n, rotationApplied, allHit, flat, missFallback) ==
  [op |-> op, n |-> n, rotationApplied |-> rotationApplied, allHit |-> allHit,
   flat |-> flat, missFallback |-> missFallback]

Idle(op, n) == Did(op, n, FALSE, TRUE, TRUE, TRUE)

\* TerrainFollower.update(model, wheelSystem) for the rays of this frame:
\* rays[i].hit says whether the ray under wheel i hits the terrain mesh,
\* rays[i].h is the terrain height at that wheel's position
FollowerUpdate(rays) ==
  IF ~initialized
  THEN /\ last' = Idle("notInitialized", Len(wheels))
       /\ UNCHANGED <<posY, rotX, rotZ, currentPitch, currentRoll, raycastResults>>
  ELSE
    LET wheelCount == Len(wheels)
        results == [i \in 1..wheelCount |-> CastRayDown(rays[i].hit, rays[i].h)]
        ground  == [i \in 1..wheelCount |-> WheelGroundHeight(results[i], rays[i].h)]
        newRes  == [i \in 1..MaxOf(Len(raycastResults), wheelCount) |->
                      IF i <= wheelCount THEN ground[i] ELSE raycastResults[i]]
        avg     == AvgGroundHeight(SumSeq(ground), wheelCount)
        targetY == SmoothedY(posY, TargetY(avg, wheelBottomOffset, opts.heightOffset),
                             opts.heightSmoothing)
        ix      == WheelIndicesOf[wheels]
        d       == WheelDimensionsOf[wheels]
        rotate  == RotationBranch(opts, wheelCount) /\ DimensionsUsable(d)
        pitch   == SmoothedAngle(currentPitch, TargetPitch(ix, newRes, d, opts.maxPitchAngle),
                                 opts.rotationSmoothing)
        roll    == SmoothedAngle(currentRoll, TargetRoll(ix, newRes, d, opts.maxRollAngle),
                                 opts.rotationSmoothing)
    IN /\ raycastResults' = newRes
       /\ posY' = targetY
       /\ IF rotate
          THEN /\ currentPitch' = pitch
               /\ currentRoll' = roll
               /\ rotX' = roll
               /\ rotZ' = pitch
          ELSE UNCHANGED <<currentPitch, currentRoll, rotX, rotZ>>
       /\ last' = Did("update", wheelCount, rotate,
                      \A i \in 1..wheelCount : rays[i].hit,
                      \A i, j \in 1..wheelCount : rays[i].h = rays[j].h,
                      \A i \in 1..wheelCount : ~rays[i].hit => ground[i] = rays[i].h)

\* TerrainFollower.updateSimple(model, heightOffset): one ray at the model's
\* own position, falling back to terrain.getHeightAt on a miss
FollowerUpdateSimple(ray, heightOffset) ==
  LET result == CastRayDown(ray.hit, ray.h)
      y      == IF result.hit THEN result.pointY + heightOffset ELSE ray.h + heightOffset
  IN /\ posY' = Num(y)
     /\ last' = Did("simple", Len(wheels), FALSE, ray.hit, TRUE, y = ray.h + heightOffset)
     /\ UNCHANGED <<rotX, rotZ, currentPitch, currentRoll, raycastResults>>

(***************************************************************************)
(* PlayerCar (client/src/player/car.ts)                                    *)
(***************************************************************************)
Ray == [hit : BOOLEAN, h : Heights]

\* the rays of one frame under n wheels
FrameRays(n) ==
  {[i \in 1..n |-> [hit |-> hits[i], h |-> HeightStep * (level + bump[i])]] :
     hits \in [1..n -> BOOLEAN], bump \in [1..n -> 0..1], level \in 0..MaxLevel}

\* PlayerCar.load(): a fresh model at CAR_INITIAL_POSITION, then
\* WheelSystem.detectWheels(model, WHEEL_RADIUS)
Load ==
  LET selected == SelectedWheels(Assets[asset])
  IN /\ posY' = Num(0)
     /\ rotX' = 0
     /\ rotZ' = 0
     /\ IF DetectOk(Assets[asset])
        THEN /\ wheels' = selected
             /\ wheelBottomOffset' = CalcWheelBottomOffset(selected, wheelBottomOffset)
             /\ initialized' = TRUE
        ELSE /\ wheels' = <<>>
             /\ UNCHANGED <<wheelBottomOffset, initialized>>
     /\ isReady' = TRUE
     /\ last' = Idle("load", Len(wheels'))
     /\ UNCHANGED <<asset, opts, currentPitch, currentRoll, raycastResults>>

\* PlayerCar.update(deltaTime), the terrain-following step: the wheel rays of
\* this frame are any hit/miss pattern over any terrain heights
Tick ==
  /\ isReady
  /\ IF initialized
     THEN \E rays \in FrameRays(Len(wheels)) : FollowerUpdate(rays)
     ELSE \E ray \in Ray : FollowerUpdateSimple(ray, SIMPLE_HEIGHT_OFFSET)
  /\ UNCHANGED <<asset, opts, isReady, wheels, initialized, wheelBottomOffset>>

\* PlayerCar.dispose(): TerrainFollower.dispose(), WheelSystem.reset(), model = null
Dispose ==
  /\ raycastResults' = <<>>
  /\ wheels' = <<>>
  /\ wheelBottomOffset' = 0
  /\ initialized' = FALSE
  /\ isReady' = FALSE
  /\ posY' = Num(0)
  /\ rotX' = 0
  /\ rotZ' = 0
  /\ last' = Idle("dispose", 0)
  /\ UNCHANGED <<asset, opts, currentPitch, currentRoll>>

InitCar ==
  /\ \E su \in Setups : asset = su[1] /\ opts = su[2]
  /\ isReady = FALSE
  /\ wheels = <<>>
  /\ initialized = FALSE
  /\ wheelBottomOffset = 0
  /\ posY = Num(0)
  /\ rotX = 0
  /\ rotZ = 0
  /\ currentPitch = 0
  /\ currentRoll = 0
  /\ raycastResults = <<0, 0, 0, 0>>
  /\ last = Idle("none", 0)

(***************************************************************************)
(* Terrain (client/src/track).  Heights are in thousandths of a world      *)
(* unit, horizontal lengths in twelfths of a world unit, factors in        *)
(* thousandths.  A heightmap is the sequence of its (segments + 1)^2       *)
(* vertex heights in row-major order; the Float32Array index i is the      *)
(* sequence index i + 1.                                                   *)
(***************************************************************************)
\* POC_TERRAIN_SIZE / POC_TERRAIN_SEGMENTS: a grid cell is one world unit wide
CellSize == 12

POC_TERRAIN_SIZE == CellSize * POC_TERRAIN_SEGMENTS

POC_TERRAIN_SEED == "mountain-pass-v1"

Seeds == {POC_TERRAIN_SEED, "ridge-line-v2"}

Presets == {"hills", "mountain"}

VertexCount(segments) == (segments + 1) * (segments + 1)

\* index = row * (segments + 1) + col
Index(row, col, segments) == row * (segments + 1) + col + 1

RowOf(i, segments) == (i - 1) \div (segments + 1)

ColOf(i, segments) == (i - 1) % (segments + 1)

\* (k / segments) * size - halfSize
WorldCoord(k, size, segments) == (k * size) \div segments - size \div 2

IsInterior(i, segments) ==
  /\ RowOf(i, segments) >= 1 /\ RowOf(i, segments) < segments
  /\ ColOf(i, segments) >= 1 /\ ColOf(i, segments) < segments

\* a + (b - a) * t
LerpHeight(a, b, t) == a + ((b - a) * t) \div 1000

(***************************************************************************)
(* The seeded noise source (alea, simplex-noise).  alea(seed) hashes the   *)
(* seed string into the state of a generator; createNoise2D draws a table  *)
(* from that generator once; noise2D(x, y) is a pure function of the table *)
(* and the sample point, with values in [-1, 1].                           *)
(***************************************************************************)
\* a generator that ignores the seed and continues from the table of the
\* previous one
Alea_Unseeded(seed) ==
  IF generator.status = "ready" THEN generator.table[1] + 1001 ELSE 1

\* the hash of the seed string
Alea(seed) == IF seed = POC_TERRAIN_SEED THEN 17 ELSE 40

NoiseTableSize == 7

PrngNext(state) == (state * 75 + 74) % 65537

RECURSIVE NoiseTable(_, _)
NoiseTable(state, n) ==
  IF n = 0 THEN <<>>
  ELSE <<(PrngNext(state) % 2001) - 1000>> \o NoiseTable(PrngNext(state), n - 1)

CreateNoise2D(prng) == NoiseTable(prng, NoiseTableSize)

\* sx, sz: the sample point, in 1/12000 of a noise-space unit
Noise2D(table, sx, sz) == table[((sx \div 40 + 3 * (sz \div 40)) % NoiseTableSize) + 1]

(***************************************************************************)
(* RoadPath (client/src/track/roadPath.ts)                                 *)
(***************************************************************************)
P3(x, y, z) == [x |-> x, y |-> y, z |-> z]

\* control-point lists: a road across the grid, a road that passes the grid
\* at a distance, a road that climbs back over its own start, a road of two
\* coincident points, no point
ControlPoints ==
  [diagonal   |-> <<P3(-18, 0, -18), P3(-6, 500, 6), P3(18, 1500, 18)>>,
   loop       |-> <<P3(-18, 0, -18), P3(18, 500, 6), P3(-18, 1000, -18)>>,
   distant    |-> <<P3(170, 0, -18), P3(190, 1000, 18)>>,
   coincident |-> <<P3(6, 1000, 6), P3(6, 1000, 6)>>,
   empty      |-> <<>>]

\* THREE.CatmullRomCurve3.getPoint reads points[0] and points[1] (and the
\* length computation calls it): with fewer than two points it reads a
\* coordinate of undefined and throws a TypeError
CurveThrows(points) == Len(points) < 2

\* curve.getPoint(i / count): the curve passes through the control points at
\* equal parameter steps; between them the model interpolates linearly
CurvePoint(points, i, count) ==
  LET l == Len(points)
      p == (l - 1) * i
      atEnd == p \div count = l - 1
      intPoint == IF atEnd THEN l - 2 ELSE p \div count
      weight == IF atEnd THEN count ELSE p % count
      a == points[intPoint + 1]
      b == points[intPoint + 2]
  IN P3(a.x + ((b.x - a.x) * weight) \div count,
        a.y + ((b.y - a.y) * weight) \div count,
        a.z + ((b.z - a.z) * weight) \div count)

\* precomputeSamples(count): samples 0..count
PrecomputeSamples(points, count) ==
  ArrayOf([k \in 1..(count + 1) |-> CurvePoint(points, k - 1, count)], 1, count + 1)

\* the square of queryPoint.distanceTo(samplePoint), X/Z only
PlanarDistanceSq(x, z, sample) ==
  (x - sample.x) * (x - sample.x) + (z - sample.z) * (z - sample.z)

\* queryPoint.distanceTo(samplePoint)
PlanarDistance(x, z, sample) == ISqrt(PlanarDistanceSq(x, z, sample))

\* the scan of findClosestPoint from sample k on; best = 0: no sample yet
\* (minDistance = Infinity).  Distances are compared by their squares, which
\* are exact and ordered as the distances are
RECURSIVE ClosestFrom(_, _, _, _, _, _)
ClosestFrom(samples, x, z, k, best, minDistanceSq) ==
  IF k > Len(samples) THEN [sample |-> best, distance |-> ISqrt(minDistanceSq)]
  ELSE LET distSq == PlanarDistanceSq(x, z, samples[k])
       IN IF best = 0 \/ distSq < minDistanceSq
          THEN ClosestFrom(samples, x, z, k + 1, k, distSq)
          ELSE ClosestFrom(samples, x, z, k + 1, best, minDistanceSq)

\* a scan in which the last of several equidistant samples wins
FindClosestPoint_LastOfTies(samples, x, z) ==
  LET n == Len(samples)
      c == ClosestFrom([k \in 1..n |-> samples[n + 1 - k]], x, z, 1, 0, 0)
  IN IF c.sample = 0
     THEN [found |-> FALSE, distance |-> 0, roadElevation |-> 0]
     ELSE [found |-> TRUE, distance |-> c.distance,
           roadElevation |-> samples[n + 1 - c.sample].y]

\* findClosestPoint(x, z): distance and roadElevation; without samples the
\* fallback { distance: Infinity, roadElevation: 0 }
FindClosestPoint(samples, x, z) ==
  LET c == ClosestFrom(samples, x, z, 1, 0, 0)
  IN IF c.sample = 0
     THEN [found |-> FALSE, distance |-> 0, roadElevation |-> 0]
     ELSE [found |-> TRUE, distance |-> c.distance,
           roadElevation |-> samples[c.sample].y]

\* the sample lists of the roads that can be built
SampleLists ==
  {PrecomputeSamples(ControlPoints[r], SampleCount) :
     r \in {n \in DOMAIN ControlPoints : ~CurveThrows(ControlPoints[n])}}

(***************************************************************************)
(* HeightmapGenerator: the stages of generate().  "hills" is               *)
(* client/src/track/heightmapGenerator.ts (rolling hills, road smoothing), *)
(* "mountain" is the fBm generator with slope limiting and road            *)
(* flattening.                                                             *)
(***************************************************************************)
BASE_NOISE_SCALE == 80

OCTAVES == 3

PERSISTENCE == 600

LACUNARITY == 2

HEIGHT_MULTIPLIER == 2500

ROLLING_HILLS_NOISE_SCALE == 18

ROLLING_HILLS_OCTAVES == 2

ROLLING_HILLS_HEIGHT == 3

ROLLING_HILLS_BASE_ELEVATION == 2000

SMOOTHING_PASSES == 4

ROAD_SMOOTHING_RADIUS == 96

ROAD_SMOOTHING_STRENGTH == 700

ROAD_INFLUENCE_RADIUS == 180

ROAD_SHOULDER_HEIGHT_OFFSET == 200

\* tan(35 degrees)
TAN_MAX_SLOPE == 700

\* the octave loop of fbm(x, z): total height and sum of the amplitudes
RECURSIVE FbmOctaves(_, _, _, _, _, _)
FbmOctaves(table, x, z, octave, amplitude, frequency) ==
  IF octave >= OCTAVES THEN [totalHeight |-> 0, maxValue |-> 0]
  ELSE LET noiseValue == Noise2D(table, x * BASE_NOISE_SCALE * frequency,
                                 z * BASE_NOISE_SCALE * frequency)
           rest == FbmOctaves(table, x, z, octave + 1,
                              (amplitude * PERSISTENCE) \div 1000,
                              frequency * LACUNARITY)
       IN [totalHeight |-> (noiseValue * amplitude) \div 1000 + rest.totalHeight,
           maxValue |-> amplitude + rest.maxValue]

\* fbm(x, z): normalizedHeight * HEIGHT_MULTIPLIER
Fbm(table, x, z) ==
  LET o == FbmOctaves(table, x, z, 0, 1000, 1)
  IN (o.totalHeight * HEIGHT_MULTIPLIER) \div o.maxValue

\* generateBaseTerrain
GenerateBaseTerrain(table, size, segments) ==
  ArrayOf([i \in 1..VertexCount(segments) |->
             Fbm(table, WorldCoord(ColOf(i, segments), size, segments),
                 WorldCoord(RowOf(i, segments), size, segments))],
          1, VertexCount(segments))

\* the octave loop of generateRollingHills; frequency = 2^octave, the
\* amplitude halves
RECURSIVE HillOctaves(_, _, _, _, _, _)
HillOctaves(table, x, z, octave, amplitude, frequency) ==
  IF octave >= ROLLING_HILLS_OCTAVES THEN 0
  ELSE (Noise2D(table, x * ROLLING_HILLS_NOISE_SCALE * frequency,
                z * ROLLING_HILLS_NOISE_SCALE * frequency) * amplitude) \div 1000
       + HillOctaves(table, x, z, octave + 1, amplitude \div 2, frequency * 2)

\* generateRollingHills: height * ROLLING_HILLS_HEIGHT + base elevation
GenerateRollingHills(table, size, segments) ==
  ArrayOf([i \in 1..VertexCount(segments) |->
             HillOctaves(table, WorldCoord(ColOf(i, segments), size, segments),
                         WorldCoord(RowOf(i, segments), size, segments), 0, 1000, 1)
               * ROLLING_HILLS_HEIGHT + ROLLING_HILLS_BASE_ELEVATION],
          1, VertexCount(segments))

\* the octave loop of NoiseGenerator.octaveNoise (client/src/utils/noise.ts):
\* total and the sum of the amplitudes; this.noise is a noise function with
\* values in [-1, 1] like noise2D
RECURSIVE OctaveLoop(_, _, _, _, _, _, _, _)
OctaveLoop(table, x, y, i, octaves, persistence, frequency, amplitude) ==
  IF i >= octaves THEN [total |-> 0, maxValue |-> 0]
  ELSE LET rest == OctaveLoop(table, x, y, i + 1, octaves, persistence,
                              frequency * 2, (amplitude * persistence) \div 1000)
       IN [total |-> (Noise2D(table, x * 1000 * frequency, y * 1000 * frequency)
                        * amplitude) \div 1000 + rest.total,
           maxValue |-> amplitude + rest.maxValue]

\* octaveNoise(x, y, octaves, persistence): total / maxValue
OctaveNoise(table, x, y, octaves, persistence) ==
  LET o == OctaveLoop(table, x, y, 0, octaves, persistence, 1, 1000)
  IN (o.total * 1000) \div o.maxValue

\* octaveNoise with its default octaves = 4 and persistence = 0.5 at every
\* vertex of the grid
GenerateOctaveNoise(table, size, segments) ==
  ArrayOf([i \in 1..VertexCount(segments) |->
             OctaveNoise(table, WorldCoord(ColOf(i, segments), size, segments),
                         WorldCoord(RowOf(i, segments), size, segments), 4, 500)],
          1, VertexCount(segments))

\* a smoothing pass that writes every vertex back before it reads the next
RECURSIVE SmoothInPlaceFrom(_, _, _)
SmoothInPlaceFrom(heightmap, i, segments) ==
  LET w == segments + 1
  IN IF i > Len(heightmap) THEN heightmap
     ELSE IF IsInterior(i, segments)
     THEN SmoothInPlaceFrom(
            [heightmap EXCEPT ![i] =
               (4 * heightmap[i]
                + 2 * (heightmap[i - w] + heightmap[i + w]
                       + heightmap[i + 1] + heightmap[i - 1])
                + (heightmap[i - w + 1] + heightmap[i - w - 1]
                   + heightmap[i + w + 1] + heightmap[i + w - 1])) \div 16],
            i + 1, segments)
     ELSE SmoothInPlaceFrom(heightmap, i + 1, segments)

ApplySmoothingPass_InPlace(heightmap, segments) ==
  SmoothInPlaceFrom(heightmap, 1, segments)

\* applySmoothingPass / smoothHeightmap: the 3x3 kernel on interior
\* vertices, computed into temp and copied back
ApplySmoothingPass(heightmap, segments) ==
  LET w == segments + 1
      temp(i) == (4 * heightmap[i]
                  + 2 * (heightmap[i - w] + heightmap[i + w]
                         + heightmap[i + 1] + heightmap[i - 1])
                  + (heightmap[i - w + 1] + heightmap[i - w - 1]
                     + heightmap[i + w + 1] + heightmap[i + w - 1])) \div 16
  IN ArrayOf([i \in 1..VertexCount(segments) |->
                IF IsInterior(i, segments) THEN temp(i) ELSE heightmap[i]],
             1, VertexCount(segments))

RECURSIVE ApplyMultipleSmoothing(_, _, _)
ApplyMultipleSmoothing(heightmap, segments, passes) ==
  IF passes = 0 THEN heightmap
  ELSE ApplyMultipleSmoothing(ApplySmoothingPass(heightmap, segments), segments,
                              passes - 1)

\* progress^power, in thousandths
RECURSIVE PowFrac(_, _)
PowFrac(progress, power) ==
  IF power = 0 THEN 1000 ELSE (progress * PowFrac(progress, power - 1)) \div 1000

\* applyEdgeFalloff at vertex i: whether distFromCenter > falloffStart, and
\* the falloff 1 - progress^power
EdgeFalloffAt(i, size, segments, falloffStart, power) ==
  LET halfSize == size \div 2
      falloffRange == 1000 - falloffStart
      distFromCenter ==
        MaxOf((Abs(WorldCoord(ColOf(i, segments), size, segments)) * 1000) \div halfSize,
              (Abs(WorldCoord(RowOf(i, segments), size, segments)) * 1000) \div halfSize)
      progress == ((distFromCenter - falloffStart) * 1000) \div falloffRange
  IN IF distFromCenter > falloffStart
     THEN [applies |-> TRUE, falloff |-> 1000 - PowFrac(progress, power)]
     ELSE [applies |-> FALSE, falloff |-> 1000]

\* falloffStart 0.7 and a cubic curve for the hills, 0.6 and a squared curve
\* for the mountain
FalloffCurves ==
  {<<POC_TERRAIN_SIZE, POC_TERRAIN_SEGMENTS, 700, 3>>,
   <<POC_TERRAIN_SIZE, POC_TERRAIN_SEGMENTS, 600, 2>>}

\* EdgeFalloffAt for every vertex, computed once per curve
EdgeFalloffOf ==
  Memo([k \in FalloffCurves |->
          ArrayOf([i \in 1..VertexCount(k[2]) |-> EdgeFalloffAt(i, k[1], k[2], k[3], k[4])],
                  1, VertexCount(k[2]))],
       FalloffCurves)

\* applyEdgeFalloff
ApplyEdgeFalloff(heightmap, size, segments, falloffStart, power) ==
  LET edge == EdgeFalloffOf[<<size, segments, falloffStart, power>>]
  IN ArrayOf([i \in 1..VertexCount(segments) |->
                IF edge[i].applies
                THEN (heightmap[i] * edge[i].falloff) \div 1000
                ELSE heightmap[i]],
             1, VertexCount(segments))

\* limitSlopes, one vertex: the clamp against the four cardinal neighbours
\* in the order north, south, west, east; diff is taken from the height the
\* vertex had when its turn came
ClampToNeighbors(height, neighbors, k, clampedHeight, maxHeightDiff) ==
  LET diff == height - neighbors[k]
  IN IF Abs(diff) > maxHeightDiff
     THEN IF diff > 0
          THEN MinOf(clampedHeight, neighbors[k] + maxHeightDiff)
          ELSE MaxOf(clampedHeight, neighbors[k] - maxHeightDiff)
     ELSE clampedHeight

LimitVertex(heightmap, i, segments, maxHeightDiff) ==
  LET w == segments + 1
      height == heightmap[i]
      neighbors == <<heightmap[i - w], heightmap[i + w], heightmap[i - 1], heightmap[i + 1]>>
      c1 == ClampToNeighbors(height, neighbors, 1, height, maxHeightDiff)
      c2 == ClampToNeighbors(height, neighbors, 2, c1, maxHeightDiff)
      c3 == ClampToNeighbors(height, neighbors, 3, c2, maxHeightDiff)
  IN ClampToNeighbors(height, neighbors, 4, c3, maxHeightDiff)

\* one pass of limitSlopes from vertex i on: interior vertices in row-major
\* order, each written back before the next one is read
RECURSIVE LimitPassFrom(_, _, _, _)
LimitPassFrom(heightmap, i, segments, maxHeightDiff) ==
  IF i > Len(heightmap) THEN heightmap
  ELSE IF IsInterior(i, segments)
       THEN LimitPassFrom([heightmap EXCEPT
                             ![i] = LimitVertex(heightmap, i, segments, maxHeightDiff)],
                          i + 1, segments, maxHeightDiff)
       ELSE LimitPassFrom(heightmap, i + 1, segments, maxHeightDiff)

\* tan(maxSlopeRadians) * cellSize
MaxHeightDiff(size, segments) == (TAN_MAX_SLOPE * (size \div segments)) \div 12

\* limitSlopes: two passes
LimitSlopes(heightmap, size, segments) ==
  LimitPassFrom(LimitPassFrom(heightmap, 1, segments, MaxHeightDiff(size, segments)),
                1, segments, MaxHeightDiff(size, segments))

\* Math.pow(normalizedDistance, 2.5) = n^2 * sqrt(n), in thousandths
PowFlatten(n) == (((n * n) \div 1000) * ISqrt(n * 1000)) \div 1000

\* influenceFactor = 1.0 - Math.pow(distance / ROAD_INFLUENCE_RADIUS,
\* ROAD_FLATTEN_STRENGTH)
InfluenceFactor(distance) ==
  1000 - PowFlatten((distance * 1000) \div ROAD_INFLUENCE_RADIUS)

\* applyRoadFlattening at the world point (x, z): the distance to the road,
\* whether it is within the influence radius, the influence factor and the
\* target height
RoadFlattenAt(samples, x, z) ==
  LET c == FindClosestPoint(samples, x, z)
  IN IF c.found /\ c.distance < ROAD_INFLUENCE_RADIUS
     THEN [applies |-> TRUE, distance |-> c.distance,
           influenceFactor |-> InfluenceFactor(c.distance),
           targetHeight |-> c.roadElevation - ROAD_SHOULDER_HEIGHT_OFFSET]
     ELSE [applies |-> FALSE, distance |-> c.distance, influenceFactor |-> 0,
           targetHeight |-> 0]

\* RoadFlattenAt for every vertex of the generated grid, computed once per road
RoadFlattenOf ==
  Memo([s \in SampleLists |->
          ArrayOf([i \in 1..VertexCount(POC_TERRAIN_SEGMENTS) |->
                     RoadFlattenAt(s,
                       WorldCoord(ColOf(i, POC_TERRAIN_SEGMENTS), POC_TERRAIN_SIZE,
                                  POC_TERRAIN_SEGMENTS),
                       WorldCoord(RowOf(i, POC_TERRAIN_SEGMENTS), POC_TERRAIN_SIZE,
                                  POC_TERRAIN_SEGMENTS))],
                  1, VertexCount(POC_TERRAIN_SEGMENTS))],
       SampleLists)

\* applyRoadFlattening
ApplyRoadFlattening(heightmap, samples, segments) ==
  LET road == RoadFlattenOf[samples]
  IN ArrayOf([i \in 1..VertexCount(segments) |->
                IF road[i].applies
                THEN LerpHeight(heightmap[i], road[i].targetHeight, road[i].influenceFactor)
                ELSE heightmap[i]],
             1, VertexCount(segments))

\* the vertices of the 3x3 neighbourhood of i that lie on the grid
Neighborhood(i, segments) ==
  {Index(nr, nc, segments) :
     <<nr, nc>> \in {rc \in ((RowOf(i, segments) - 1)..(RowOf(i, segments) + 1))
                            \X ((ColOf(i, segments) - 1)..(ColOf(i, segments) + 1)) :
                       /\ rc[1] >= 0 /\ rc[1] <= segments
                       /\ rc[2] >= 0 /\ rc[2] <= segments}}

RECURSIVE SumOver(_, _)
SumOver(heightmap, S) ==
  IF S = {} THEN 0
  ELSE LET i == CHOOSE j \in S : TRUE
       IN heightmap[i] + SumOver(heightmap, S \ {i})

\* a smoothing factor that grows with the distance from the road
SmoothFactor_Inverted(distance) ==
  (((distance * 1000) \div ROAD_SMOOTHING_RADIUS) * ROAD_SMOOTHING_STRENGTH) \div 1000

\* smoothFactor = (1.0 - distance / ROAD_SMOOTHING_RADIUS) * ROAD_SMOOTHING_STRENGTH
SmoothFactor(distance) ==
  ((1000 - (distance * 1000) \div ROAD_SMOOTHING_RADIUS) * ROAD_SMOOTHING_STRENGTH)
    \div 1000

\* applyRoadSmoothing at the world point (x, z): the distance to the road,
\* whether it is within the smoothing radius, and the smoothing factor
RoadSmoothAt(samples, x, z) ==
  LET c == FindClosestPoint(samples, x, z)
  IN IF c.found /\ c.distance < ROAD_SMOOTHING_RADIUS
     THEN [applies |-> TRUE, distance |-> c.distance,
           smoothFactor |-> SmoothFactor(c.distance)]
     ELSE [applies |-> FALSE, distance |-> c.distance, smoothFactor |-> 0]

\* RoadSmoothAt and the neighbourhood for every vertex of the generated grid,
\* computed once per road
RoadSmoothOf ==
  Memo([s \in SampleLists |->
          ArrayOf([i \in 1..VertexCount(POC_TERRAIN_SEGMENTS) |->
                     RoadSmoothAt(s,
                       WorldCoord(ColOf(i, POC_TERRAIN_SEGMENTS), POC_TERRAIN_SIZE,
                                  POC_TERRAIN_SEGMENTS),
                       WorldCoord(RowOf(i, POC_TERRAIN_SEGMENTS), POC_TERRAIN_SIZE,
                                  POC_TERRAIN_SEGMENTS))],
                  1, VertexCount(POC_TERRAIN_SEGMENTS))],
       SampleLists)

NeighborhoodOf ==
  ArrayOf([i \in 1..VertexCount(POC_TERRAIN_SEGMENTS) |->
             Neighborhood(i, POC_TERRAIN_SEGMENTS)],
          1, VertexCount(POC_TERRAIN_SEGMENTS))

\* applyRoadSmoothing: near the road, blend toward the neighbourhood average
\* of the heights the stage started with
ApplyRoadSmoothing(heightmap, samples, segments) ==
  LET road == RoadSmoothOf[samples]
      avgHeight(i) == SumOver(heightmap, NeighborhoodOf[i])
                        \div Cardinality(NeighborhoodOf[i])
  IN ArrayOf([i \in 1..VertexCount(segments) |->
                IF road[i].applies
                THEN LerpHeight(heightmap[i], avgHeight(i), road[i].smoothFactor)
                ELSE heightmap[i]],
             1, VertexCount(segments))

RECURSIVE MinHeightFrom(_, _)
MinHeightFrom(heightmap, i) ==
  IF i = Len(heightmap) THEN heightmap[i]
  ELSE MinOf(heightmap[i], MinHeightFrom(heightmap, i + 1))

RECURSIVE MaxHeightFrom(_, _)
MaxHeightFrom(heightmap, i) ==
  IF i = Len(heightmap) THEN heightmap[i]
  ELSE MaxOf(heightmap[i], MaxHeightFrom(heightmap, i + 1))

\* calculateMetadata
CalculateMetadata(heightmap, size, segments) ==
  [minHeight |-> MinHeightFrom(heightmap, 1),
   maxHeight |-> MaxHeightFrom(heightmap, 1),
   size |-> size,
   segments |-> segments]

\* generate() of the rolling-hills generator; the stage results are kept
GenerateHills(table, samples, size, segments) ==
  LET base == GenerateRollingHills(table, size, segments)
      smoothed == ApplyMultipleSmoothing(base, segments, SMOOTHING_PASSES)
      falloff == ApplyEdgeFalloff(smoothed, size, segments, 700, 3)
      road == ApplyRoadSmoothing(falloff, samples, segments)
  IN [heightmap |-> road,
      metadata |-> CalculateMetadata(road, size, segments),
      base |-> base, smoothed |-> smoothed, falloff |-> falloff, limited |-> falloff,
      blend |-> RoadSmoothOf[samples]]

\* a generate() that computes the metadata before the road stage
GenerateMountain_MetadataEarly(table, samples, size, segments) ==
  LET base == GenerateBaseTerrain(table, size, segments)
      smoothed == ApplySmoothingPass(base, segments)
      falloff == ApplyEdgeFalloff(smoothed, size, segments, 600, 2)
      limited == LimitSlopes(falloff, size, segments)
      road == ApplyRoadFlattening(limited, samples, segments)
  IN [heightmap |-> road,
      metadata |-> CalculateMetadata(limited, size, segments),
      base |-> base, smoothed |-> smoothed, falloff |-> falloff, limited |-> limited,
      blend |-> RoadFlattenOf[samples]]

\* generate() of the fBm generator
GenerateMountain(table, samples, size, segments) ==
  LET base == GenerateBaseTerrain(table, size, segments)
      smoothed == ApplySmoothingPass(base, segments)
      falloff == ApplyEdgeFalloff(smoothed, size, segments, 600, 2)
      limited == LimitSlopes(falloff, size, segments)
      road == ApplyRoadFlattening(limited, samples, segments)
  IN [heightmap |-> road,
      metadata |-> CalculateMetadata(road, size, segments),
      base |-> base, smoothed |-> smoothed, falloff |-> falloff, limited |-> limited,
      blend |-> RoadFlattenOf[samples]]

(***************************************************************************)
(* HeightmapGenerator.getHeightAt with the arithmetic of JavaScript        *)
(* numbers: a division by zero gives an infinity or NaN, every comparison  *)
(* with NaN is false, an array read at NaN or past the end gives           *)
(* undefined, and undefined in arithmetic gives NaN.                       *)
(***************************************************************************)
GridFinite(cell, num, den) == [kind |-> "finite", cell |-> cell, num |-> num, den |-> den]

GridSpecial(kind) == [kind |-> kind, cell |-> 0, num |-> 0, den |-> 1]

\* gridX = (x + size / 2) / (size / segments): Math.floor(gridX) and the
\* fraction gridX - Math.floor(gridX) = num / den
GridCoord(c, size, segments) ==
  IF segments = 0
  THEN IF size = 0 THEN GridSpecial("nan") ELSE GridFinite(0, 0, 1)
  ELSE IF size = 0
  THEN IF c = 0 THEN GridSpecial("nan")
       ELSE IF (c > 0) = (segments > 0) THEN GridSpecial("posInf")
       ELSE GridSpecial("negInf")
  ELSE LET n == IF size < 0 THEN -((2 * c + size) * segments)
                ELSE (2 * c + size) * segments
           d == 2 * Abs(size)
       IN GridFinite(n \div d, n % d, d)

\* a boundary check that only looks at the low side
OutsideGrid_LowOnly(g, segments) ==
  \/ g.kind = "negInf"
  \/ g.kind = "finite" /\ g.cell < 0

\* cell < 0 || cell >= segments
OutsideGrid(g, segments) ==
  \/ g.kind = "negInf"
  \/ g.kind = "posInf"
  \/ g.kind = "finite" /\ (g.cell < 0 \/ g.cell >= segments)

\* h0 = h00 * (1 - tx) + h10 * tx; h1 likewise; h0 * (1 - tz) + h1 * tz
Bilinear_Extrapolating(h00, h10, h01, h11, col, row) ==
  ((h00 * (col.den + col.num) - h10 * col.num) * (row.den - row.num)
   + (h01 * (col.den + col.num) - h11 * col.num) * row.num) \div (col.den * row.den)

Bilinear(h00, h10, h01, h11, col, row) ==
  ((h00 * (col.den - col.num) + h10 * col.num) * (row.den - row.num)
   + (h01 * (col.den - col.num) + h11 * col.num) * row.num) \div (col.den * row.den)

GetHeightAt(x, z, heightmap, size, segments) ==
  LET col == GridCoord(x, size, segments)
      row == GridCoord(z, size, segments)
      i00 == row.cell * (segments + 1) + col.cell + 1
      i01 == (row.cell + 1) * (segments + 1) + col.cell + 1
      defined(i) == i >= 1 /\ i <= Len(heightmap)
  IN IF OutsideGrid(col, segments) \/ OutsideGrid(row, segments) THEN Num(0)
     ELSE IF col.kind = "nan" \/ row.kind = "nan" THEN NaNVal
     ELSE IF ~(defined(i00) /\ defined(i00 + 1) /\ defined(i01) /\ defined(i01 + 1))
          THEN NaNVal
     ELSE Num(Bilinear(heightmap[i00], heightmap[i00 + 1],
                       heightmap[i01], heightmap[i01 + 1], col, row))

\* the indices of the heightmap array that getHeightAt reads (h00, h10, h01,
\* h11): none when it returns at the boundary check
HeightReads(x, z, size, segments) ==
  LET col == GridCoord(x, size, segments)
      row == GridCoord(z, size, segments)
      i00 == row.cell * (segments + 1) + col.cell
      i01 == (row.cell + 1) * (segments + 1) + col.cell
  IN IF OutsideGrid(col, segments) \/ OutsideGrid(row, segments) THEN {}
     ELSE IF col.kind = "nan" \/ row.kind = "nan" THEN {"NaN"}
     ELSE {i00, i00 + 1, i01, i01 + 1}

(***************************************************************************)
(* Terrain operations.                                                     *)
(***************************************************************************)
NoGenerator ==
  [status |-> "none", preset |-> "none", seed |-> "", road |-> "none",
   table |-> <<>>, samples |-> <<>>]

NoTerrain ==
  [generated |-> FALSE, preset |-> "none", seed |-> "", road |-> "none",
   heightmap |-> <<>>,
   metadata |-> [minHeight |-> 0, maxHeight |-> 0, size |-> 0, segments |-> 0],
   base |-> <<>>, smoothed |-> <<>>, falloff |-> <<>>, limited |-> <<>>,
   blend |-> <<>>, previous |-> <<>>]

NoQuery ==
  [op |-> "none", x |-> 0, z |-> 0, size |-> 0, segments |-> 0, result |-> Num(0),
   threw |-> FALSE, road |-> "none"]

\* the generators that get built: both presets over the usable roads and
\* seeds, and the roads the curve rejects
Constructions ==
  (Presets \X {"diagonal"} \X Seeds)
    \cup (Presets \X {"distant"} \X {POC_TERRAIN_SEED})
    \cup ({"hills"} \X {"loop"} \X {POC_TERRAIN_SEED})
    \cup ({"mountain"} \X {"coincident"} \X {POC_TERRAIN_SEED})
    \cup ({"hills"} \X {"empty"} \X {POC_TERRAIN_SEED})

\* new HeightmapGenerator(new RoadPath(controlPoints, sampleCount), seed)
NewHeightmapGenerator(preset, road, seed) ==
  /\ generator' =
       IF CurveThrows(ControlPoints[road])
       THEN [status |-> "TypeError", preset |-> preset, seed |-> seed, road |-> road,
             table |-> <<>>, samples |-> <<>>]
       ELSE [status |-> "ready", preset |-> preset, seed |-> seed, road |-> road,
             table |-> CreateNoise2D(Alea(seed)),
             samples |-> PrecomputeSamples(ControlPoints[road], SampleCount)]
  /\ UNCHANGED <<terrain, query>>

SameInput(t, g) == t.preset = g.preset /\ t.seed = g.seed /\ t.road = g.road

\* generator.generate(); the history of height queries starts afresh, and
\* what the preceding run returned is kept when it had the same preset, seed
\* and road
Generate ==
  /\ generator.status = "ready"
  /\ LET g == IF generator.preset = "hills"
              THEN GenerateHills(generator.table, generator.samples,
                                 POC_TERRAIN_SIZE, POC_TERRAIN_SEGMENTS)
              ELSE GenerateMountain(generator.table, generator.samples,
                                    POC_TERRAIN_SIZE, POC_TERRAIN_SEGMENTS)
     IN terrain' = [generated |-> TRUE, preset |-> generator.preset,
                    seed |-> generator.seed, road |-> generator.road,
                    heightmap |-> g.heightmap, metadata |-> g.metadata,
                    base |-> g.base, smoothed |-> g.smoothed,
                    falloff |-> g.falloff, limited |-> g.limited,
                    blend |-> g.blend,
                    previous |->
                      IF terrain.generated /\ SameInput(terrain, generator)
                      THEN <<terrain.heightmap, terrain.metadata>>
                      ELSE <<>>]
  /\ query' = NoQuery
  /\ UNCHANGED generator

HalfSize == POC_TERRAIN_SIZE \div 2

\* world coordinates asked for: beyond the edge, the first vertex, an
\* interior vertex, a point inside a cell, the last vertex
QueryCoords == {-(HalfSize + 6), -HalfSize, -6, 3, HalfSize}

\* size and segments a caller may pass that do not describe a grid
InvalidGrids ==
  {<<0, POC_TERRAIN_SEGMENTS>>, <<-POC_TERRAIN_SIZE, POC_TERRAIN_SEGMENTS>>,
   <<POC_TERRAIN_SIZE, 0>>, <<POC_TERRAIN_SIZE, -1>>, <<0, 0>>}

Queries ==
  (QueryCoords \X {-6, 3, HalfSize} \X {<<POC_TERRAIN_SIZE, POC_TERRAIN_SEGMENTS>>})
    \cup ({3, HalfSize + 30} \X {-(HalfSize + 1), HalfSize + 30}
            \X {<<POC_TERRAIN_SIZE, POC_TERRAIN_SEGMENTS>>})
    \cup ({HalfSize + 1} \X {3} \X {<<POC_TERRAIN_SIZE, POC_TERRAIN_SEGMENTS>>})
    \cup ({0} \X {0} \X InvalidGrids)
    \cup ({-6} \X {0} \X {<<0, POC_TERRAIN_SEGMENTS>>})

\* HeightmapGenerator.getHeightAt(x, z, heightmap, size, segments) on the
\* generated heightmap; the function has no throw statement
QueryHeight(x, z, size, segments) ==
  /\ terrain.generated
  /\ query' = [op |-> "getHeightAt", x |-> x, z |-> z, size |-> size,
               segments |-> segments,
               result |-> GetHeightAt(x, z, terrain.heightmap, size, segments),
               threw |-> FALSE, road |-> terrain.road,
               reads |-> HeightReads(x, z, size, segments)]
  /\ UNCHANGED <<generator, terrain>>

\* world points asked for: a sample of every road, a point at the same
\* distance from two samples of the diagonal road, the centre, a point off
\* the grid
ClosestQueries == {<<-18, -18>>, <<-15, -12>>, <<0, 0>>, <<30, 6>>}

\* roadPath.findClosestPoint(x, z) on the road path of the generator
QueryClosest(x, z) ==
  /\ generator.status = "ready"
  /\ query' = [op |-> "findClosestPoint", x |-> x, z |-> z, size |-> 0,
               segments |-> 0,
               result |-> FindClosestPoint(generator.samples, x, z),
               threw |-> FALSE, road |-> generator.road]
  /\ UNCHANGED <<generator, terrain>>

InitTerrain ==
  /\ generator = NoGenerator
  /\ terrain = NoTerrain
  /\ query = NoQuery

(***************************************************************************)
(* Multiplayer: the server's socket handlers (server/src/socket/handlers.ts,*)
(* GameStateManager) and the client's NetworkManager and                   *)
(* RemotePlayersManager (client/src/network/socket.ts,                     *)
(* client/src/game/player.ts, the handlers set up in init).  A socket id   *)
(* names one connection; events between a client and the server arrive in  *)
(* the order they were emitted.  A transform stands for position and       *)
(* rotation, in tenths of a unit.                                          *)
(***************************************************************************)
Sockets == 1..MaxSockets

Tf(p, r) == [position |-> p, rotation |-> r]

DEFAULT_PLAYER_ROTATION == 0

\* generateRandomSpawnPosition()
SpawnPositions == {0}

\* what a client reports in a PLAYER_UPDATE: a transform away from the spawn
Transforms == {Tf(5, 5)}

\* REMOTE_PLAYER_LERP_SPEED = 0.2, in tenths
REMOTE_PLAYER_LERP_SPEED == 2

NoPlayer == [id |-> 0]

NoRemote == [id |-> 0]

NoClient ==
  [playerId |-> 0, joinSent |-> FALSE, updatesSent |-> 0,
   players |-> [i \in Sockets |-> NoRemote],
   scene |-> [i \in Sockets |-> 0]]

\* an emit to every connected socket, the sender included
BroadcastFrom_IncludingSender(sender, msg) ==
  [r \in Sockets |->
     IF status[r] = "connected" THEN Append(toClient[r], msg) ELSE toClient[r]]

\* socket.broadcast.emit(event): every connected socket but the sender
BroadcastFrom(sender, msg) ==
  [r \in Sockets |->
     IF r # sender /\ status[r] = "connected" THEN Append(toClient[r], msg)
     ELSE toClient[r]]

\* a disconnect that tells nobody
EmitAll_Nobody(gone, msg) ==
  [r \in Sockets |-> IF r # gone /\ status[r] = "connected" THEN toClient[r] ELSE <<>>]

\* io.emit(event) while the socket `gone` disconnects: every socket that is
\* still connected
EmitAll(gone, msg) ==
  [r \in Sockets |->
     IF r # gone /\ status[r] = "connected" THEN Append(toClient[r], msg)
     ELSE <<>>]

\* an addPlayer without the check for an existing entry
AddPlayer_Unchecked(cl, player) ==
  [cl EXCEPT
     !.players[player.id] =
        [id |-> player.id, model |-> player.transform, target |-> player.transform],
     !.scene[player.id] = @ + 1]

\* RemotePlayersManager.addPlayer: a model in the scene and an entry in the
\* map, unless the map has the id
AddPlayer(cl, player) ==
  IF cl.players[player.id] # NoRemote THEN cl
  ELSE [cl EXCEPT
          !.players[player.id] =
             [id |-> player.id, model |-> player.transform,
              target |-> player.transform],
          !.scene[player.id] = @ + 1]

\* RemotePlayersManager.removePlayer
RemovePlayer(cl, playerId) ==
  IF cl.players[playerId] = NoRemote THEN cl
  ELSE [cl EXCEPT !.players[playerId] = NoRemote, !.scene[playerId] = @ - 1]

\* an updatePlayer that sets the model's transform directly
UpdatePlayer_Direct(cl, playerId, transform) ==
  IF cl.players[playerId] = NoRemote THEN cl
  ELSE [cl EXCEPT !.players[playerId].model = transform,
                  !.players[playerId].target = transform]

\* RemotePlayersManager.updatePlayer: the targets only
UpdatePlayer(cl, playerId, transform) ==
  IF cl.players[playerId] = NoRemote THEN cl
  ELSE [cl EXCEPT !.players[playerId].target = transform]

\* THREE lerp by REMOTE_PLAYER_LERP_SPEED
LerpRemote(cur, target) == cur + ((target - cur) * REMOTE_PLAYER_LERP_SPEED) \div 10

\* RemotePlayersManager.update: every model moves toward its target
UpdateRemotes(cl) ==
  [cl EXCEPT
     !.players =
        [i \in Sockets |->
           IF cl.players[i] = NoRemote THEN NoRemote
           ELSE [cl.players[i] EXCEPT
                   !.model = Tf(LerpRemote(@.position, cl.players[i].target.position),
                                LerpRemote(@.rotation, cl.players[i].target.rotation))]]]

\* the GAME_STATE handler of init: addPlayer for every player but ourselves
RECURSIVE AddAll(_, _, _)
AddAll(cl, state, ids) ==
  IF ids = {} THEN cl
  ELSE LET i == CHOOSE j \in ids : TRUE
       IN AddAll(IF state[i] # NoPlayer /\ state[i].id # cl.playerId
                 THEN AddPlayer(cl, state[i]) ELSE cl,
                 state, ids \ {i})

\* the client's handler for one event from the server
OnEvent(cl, msg) ==
  IF msg.type = "GAME_STATE" THEN AddAll(cl, msg.players, Sockets)
  ELSE IF msg.type = "PLAYER_JOINED"
  THEN IF msg.player.id # cl.playerId THEN AddPlayer(cl, msg.player) ELSE cl
  ELSE IF msg.type = "PLAYER_LEFT" THEN RemovePlayer(cl, msg.id)
  ELSE UpdatePlayer(cl, msg.id, msg.transform)

\* RemotePlayersManager.dispose: removePlayer for every entry of the map
RECURSIVE RemoveAll(_, _)
RemoveAll(cl, ids) ==
  IF ids = {} THEN cl
  ELSE LET i == CHOOSE j \in ids : TRUE
       IN RemoveAll(RemovePlayer(cl, i), ids \ {i})

\* io(SERVER_URL) connects: the server registers its handlers for the
\* socket, the client's 'connect' handler stores socket.id
Connect(c) ==
  /\ status[c] = "idle"
  /\ status' = [status EXCEPT ![c] = "connected"]
  /\ clients' = [clients EXCEPT ![c].playerId = c]
  /\ UNCHANGED <<players, toServer, toClient>>

\* networkManager.joinGame(username), once, from the name input; an emit
\* before the connection is buffered
JoinGame(c) ==
  /\ status[c] # "closed"
  /\ ~clients[c].joinSent
  /\ clients' = [clients EXCEPT ![c].joinSent = TRUE]
  /\ toServer' = [toServer EXCEPT ![c] = Append(@, [type |-> "JOIN_GAME"])]
  /\ UNCHANGED <<status, players, toClient>>

\* PLAYER_UPDATE events emitted so far, over all sockets
RECURSIVE UpdatesSent(_)
UpdatesSent(ids) ==
  IF ids = {} THEN 0
  ELSE LET i == CHOOSE j \in ids : TRUE
       IN clients[i].updatesSent + UpdatesSent(ids \ {i})

\* socket.emit(PLAYER_UPDATE, update); the server takes the event from any
\* connected socket, the game client emits it from its animation loop
SendPlayerUpdate(c, transform) ==
  /\ status[c] = "connected"
  /\ UpdatesSent(Sockets) < MaxUpdates
  /\ clients' = [clients EXCEPT ![c].updatesSent = @ + 1]
  /\ toServer' = [toServer EXCEPT
                    ![c] = Append(@, [type |-> "PLAYER_UPDATE", transform |-> transform])]
  /\ UNCHANGED <<status, players, toClient>>

\* handleJoinGame
HandleJoinGame(c, spawnPosition) ==
  /\ status[c] = "connected"
  /\ toServer[c] # <<>>
  /\ Head(toServer[c]).type = "JOIN_GAME"
  /\ LET player == [id |-> c, transform |-> Tf(spawnPosition, DEFAULT_PLAYER_ROTATION)]
         state == [players EXCEPT ![c] = player]
     IN /\ players' = state
        /\ toClient' = [BroadcastFrom(c, [type |-> "PLAYER_JOINED", player |-> player])
                          EXCEPT ![c] = Append(toClient[c],
                                               [type |-> "GAME_STATE", players |-> state])]
  /\ toServer' = [toServer EXCEPT ![c] = Tail(@)]
  /\ UNCHANGED <<status, clients>>

\* { id: socket.id, ...payload }: a property of the payload comes after the
\* id and replaces it
RelayedId(c, payload) == IF "id" \in DOMAIN payload THEN payload.id ELSE c

\* handlePlayerUpdate
HandlePlayerUpdate(c) ==
  /\ status[c] = "connected"
  /\ toServer[c] # <<>>
  /\ Head(toServer[c]).type = "PLAYER_UPDATE"
  /\ LET payload == Head(toServer[c])
     IN IF players[c] # NoPlayer
        THEN /\ players' = [players EXCEPT ![c].transform = payload.transform]
             /\ toClient' = BroadcastFrom(c, [type |-> "PLAYER_UPDATED",
                                              id |-> RelayedId(c, payload),
                                              transform |-> payload.transform])
        ELSE UNCHANGED <<players, toClient>>
  /\ toServer' = [toServer EXCEPT ![c] = Tail(@)]
  /\ UNCHANGED <<status, clients>>

\* the page unloads (networkManager.dispose(), remotePlayersManager.dispose())
\* and the server runs handleDisconnect; what was in flight on the
\* connection is lost
Disconnect(c) ==
  /\ status[c] = "connected"
  /\ status' = [status EXCEPT ![c] = "closed"]
  /\ toServer' = [toServer EXCEPT ![c] = <<>>]
  /\ IF players[c] # NoPlayer
     THEN /\ players' = [players EXCEPT ![c] = NoPlayer]
          /\ toClient' = [EmitAll(c, [type |-> "PLAYER_LEFT", id |-> c])
                            EXCEPT ![c] = <<>>]
     ELSE /\ UNCHANGED players
          /\ toClient' = [toClient EXCEPT ![c] = <<>>]
  /\ clients' = [clients EXCEPT ![c] = RemoveAll(@, Sockets)]

\* the client receives the next event from the server
Deliver(c) ==
  /\ status[c] = "connected"
  /\ toClient[c] # <<>>
  /\ clients' = [clients EXCEPT ![c] = OnEvent(@, Head(toClient[c]))]
  /\ toClient' = [toClient EXCEPT ![c] = Tail(@)]
  /\ UNCHANGED <<status, players, toServer>>

\* one frame of the animation loop: remotePlayersManager.update()
Frame(c) ==
  /\ clients[c].joinSent
  /\ clients' = [clients EXCEPT ![c] = UpdateRemotes(@)]
  /\ UNCHANGED <<status, players, toServer, toClient>>

InitNet ==
  /\ status = [c \in Sockets |-> "idle"]
  /\ players = [c \in Sockets |-> NoPlayer]
  /\ toServer = [c \in Sockets |-> <<>>]
  /\ toClient = [c \in Sockets |-> <<>>]
  /\ clients = [c \in Sockets |-> NoClient]

(***************************************************************************)
(* Steering of the player's car (client/src/player/car.ts, input.ts).      *)
(* Angles are in ten-thousandths of a radian.                              *)
(***************************************************************************)
MAX_STEERING_ANGLE == 5236
STEERING_SPEED == 800
STEERING_RETURN_SPEED == 1200
CentredThreshold == 10

TurnKeys == {"left", "right"}

NoKeys == [k \in TurnKeys |-> FALSE]

Sign(v) == IF v > 0 THEN 1 ELSE IF v < 0 THEN -1 ELSE 0

\* InputHandler.getMovementInput().turn
Turn(held) ==
  (IF held["left"] THEN 1 ELSE 0) - (IF held["right"] THEN 1 ELSE 0)

\* the keydown and keyup listeners of InputHandler
KeyDown(k) ==
  /\ keys' = [keys EXCEPT ![k] = TRUE]
  /\ UNCHANGED <<steeringAngle, container, timers, now, shown>>

KeyUp(k) ==
  /\ keys' = [keys EXCEPT ![k] = FALSE]
  /\ UNCHANGED <<steeringAngle, container, timers, now, shown>>

\* the branch of PlayerCar.update taken while a turn key is held
SteerToward(angle, turn) ==
  Clamp(angle + (-turn) * STEERING_SPEED, -MAX_STEERING_ANGLE, MAX_STEERING_ANGLE)

ReturnToCentre_Overshoot(angle) ==
  IF Abs(angle) > CentredThreshold
  THEN angle - Sign(angle) * STEERING_RETURN_SPEED
  ELSE angle

\* the branch of PlayerCar.update taken while no turn is requested
ReturnToCentre(angle) ==
  IF Abs(angle) > CentredThreshold
  THEN IF Abs(angle) < STEERING_RETURN_SPEED
       THEN 0
       ELSE angle - Sign(angle) * STEERING_RETURN_SPEED
  ELSE angle

\* the steering block of PlayerCar.update: it reads the input and
\* steeringAngle and writes steeringAngle only
SteerTick ==
  /\ isReady
  /\ steeringAngle' = IF Turn(keys) # 0
                      THEN SteerToward(steeringAngle, Turn(keys))
                      ELSE ReturnToCentre(steeringAngle)
  /\ UNCHANGED <<keys, container, timers, now, shown>>

(***************************************************************************)
(* ErrorDisplay (client/src/ui/errorDisplay.ts).  Time is in seconds.      *)
(***************************************************************************)
ERROR_DISPLAY_DURATION == 5

Messages == {"Failed to load car model. Please refresh the page.",
             "Username is required"}

Durations == {2, ERROR_DISPLAY_DURATION}

NoShow == [at |-> 0, duration |-> 0]

\* ErrorDisplay.show(message, duration)
Show(message, duration) ==
  /\ container' = [textContent |-> message, display |-> "block"]
  /\ timers' = timers \cup {now + duration}
  /\ shown' = [at |-> now, duration |-> duration]
  /\ UNCHANGED <<steeringAngle, keys, now>>

\* a callback registered by show() runs ErrorDisplay.hide()
TimerFires(deadline) ==
  /\ deadline \in timers
  /\ deadline <= now
  /\ timers' = timers \ {deadline}
  /\ container' = [container EXCEPT !.display = "none"]
  /\ UNCHANGED <<steeringAngle, keys, now, shown>>

\* a second passes; a callback that is due runs before the clock moves on
Advance ==
  /\ now < MaxTime
  /\ \A deadline \in timers : deadline > now
  /\ now' = now + 1
  /\ UNCHANGED <<steeringAngle, keys, container, timers, shown>>

InitPage ==
  /\ steeringAngle = 0
  /\ keys = NoKeys
  /\ container = [textContent |-> "", display |-> "none"]
  /\ timers = {}
  /\ now = 0
  /\ shown = NoShow


(***************************************************************************)
(* Specifications.                                                         *)
(***************************************************************************)
\* the vehicle on its own: no terrain is generated or queried
Init == InitCar /\ InitTerrain /\ InitNet /\ InitPage

Next ==
  \/ Load /\ UNCHANGED <<terrainVars, netVars, pageVars>>
  \/ Tick /\ UNCHANGED <<terrainVars, netVars, pageVars>>
  \/ Dispose /\ UNCHANGED <<terrainVars, netVars, pageVars>>

Spec == Init /\ [][Next]_vars

\* the terrain on its own: the vehicle is never loaded
InitT ==
  /\ InitPage
  /\ InitCar
  /\ InitNet
  /\ asset = "four"
  /\ opts = OptDefault
  /\ InitTerrain

NextT ==
  \/ \E c \in Constructions : NewHeightmapGenerator(c[1], c[2], c[3]) /\ UNCHANGED <<carVars, netVars, pageVars>>
  \/ Generate /\ UNCHANGED <<carVars, netVars, pageVars>>
  \/ \E q \in Queries : QueryHeight(q[1], q[2], q[3][1], q[3][2]) /\ UNCHANGED <<carVars, netVars, pageVars>>
  \/ \E q \in ClosestQueries : QueryClosest(q[1], q[2]) /\ UNCHANGED <<carVars, netVars, pageVars>>

SpecTerrain == InitT /\ [][NextT]_vars

\* slope limiting on its own: limitSlopes receives the heightmap the edge
\* falloff leaves behind, the boundary at 0 and the interior at any height
\* the base synthesis can reach
InteriorHeights == {-HEIGHT_MULTIPLIER, 0, 500, 1500}

SlopeInput(a, b, c, d) ==
  ArrayOf([i \in 1..VertexCount(POC_TERRAIN_SEGMENTS) |->
             IF ~IsInterior(i, POC_TERRAIN_SEGMENTS) THEN 0
             ELSE IF RowOf(i, POC_TERRAIN_SEGMENTS) % 2 = 1
                  THEN (IF ColOf(i, POC_TERRAIN_SEGMENTS) % 2 = 1 THEN a ELSE b)
                  ELSE (IF ColOf(i, POC_TERRAIN_SEGMENTS) % 2 = 1 THEN c ELSE d)],
          1, VertexCount(POC_TERRAIN_SEGMENTS))

InitS ==
  /\ InitPage
  /\ InitCar
  /\ InitNet
  /\ asset = "four"
  /\ opts = OptDefault
  /\ generator = NoGenerator
  /\ query = NoQuery
  /\ \E a, b, c, d \in InteriorHeights :
       terrain = [NoTerrain EXCEPT
                    !.preset = "mountain",
                    !.metadata = [minHeight |-> 0, maxHeight |-> 0,
                                  size |-> POC_TERRAIN_SIZE,
                                  segments |-> POC_TERRAIN_SEGMENTS],
                    !.falloff = SlopeInput(a, b, c, d)]

\* the limitSlopes stage of generate()
LimitStage ==
  /\ terrain.falloff # <<>>
  /\ terrain.limited = <<>>
  /\ terrain' = [terrain EXCEPT
                   !.limited = LimitSlopes(terrain.falloff, terrain.metadata.size,
                                           terrain.metadata.segments)]
  /\ UNCHANGED <<generator, query>>

NextS == LimitStage /\ UNCHANGED <<carVars, netVars, pageVars>>

SpecSlopes == InitS /\ [][NextS]_vars

\* the raycaster on its own.  A target is the set of heights at which its
\* surfaces cross the vertical line through (x, z): none over a hole or off
\* the edge, several where the mesh has layers.
DefaultStartHeight == 50 * 12

\* raycaster.intersectObject for a ray from (x, startHeight, z) straight
\* down with far = Infinity: the crossings at or below the origin, nearest
\* first
RECURSIVE IntersectObject(_, _, _)
IntersectObject(x, z, surfaces) ==
  LET below == {y \in surfaces : y <= DefaultStartHeight}
  IN IF below = {} THEN <<>>
     ELSE LET top == CHOOSE y \in below : \A o \in below : o <= y
          IN <<[point |-> P3(x, top, z), distance |-> DefaultStartHeight - top]>>
               \o IntersectObject(x, z, below \ {top})

\* a castRayDown whose miss result is the origin
CastRayDownAt_OriginOnMiss(x, z, surfaces) ==
  LET intersects == IntersectObject(x, z, surfaces)
  IN IF Len(intersects) > 0
     THEN [hit |-> TRUE, point |-> intersects[1].point,
           distance |-> intersects[1].distance]
     ELSE [hit |-> FALSE, point |-> P3(0, 0, 0), distance |-> -1]

\* TerrainRaycaster.castRayDown(x, z, target) without options
CastRayDownAt(x, z, surfaces) ==
  LET intersects == IntersectObject(x, z, surfaces)
  IN IF Len(intersects) > 0
     THEN [hit |-> TRUE, point |-> intersects[1].point,
           distance |-> intersects[1].distance]
     ELSE [hit |-> FALSE, point |-> P3(x, 0, z), distance |-> -1]

RayCoords == {-30, -18, 0, 7, 18}

SurfaceHeights == {-24, 0, 36, DefaultStartHeight + 12}

\* raycaster.castRayDown(x, z, target); the function has no throw statement
\* and the target's mesh exists from its construction on
CastRay(x, z, surfaces) ==
  /\ query' = [op |-> "castRayDown", x |-> x, z |-> z, size |-> 0, segments |-> 0,
               result |-> CastRayDownAt(x, z, surfaces), threw |-> FALSE,
               road |-> "none", surfaces |-> surfaces]
  /\ UNCHANGED <<generator, terrain>>

\* a point of a castRaysAtPoints call with the crossings of the target over it
RayPoint(x, z, surfaces) == [x |-> x, z |-> z, surfaces |-> surfaces]

RayPoints ==
  {RayPoint(-18, 0, {36}), RayPoint(7, 18, {}), RayPoint(0, 0, {0, 36}),
   RayPoint(18, -30, {-24})}

\* points.map(point => castRayDown(point.x, point.z, target)): every cast
\* writes the raycaster's one resultPoint and returns a result that refers to
\* it; pool is that vector's value, results are the results so far
RECURSIVE CastEach(_, _, _)
CastEach(points, pool, results) ==
  IF points = <<>> THEN [results |-> results, resultPoint |-> pool]
  ELSE LET cast == CastRayDownAt(Head(points).x, Head(points).z, Head(points).surfaces)
       IN CastEach(Tail(points), cast.point,
                   Append(results, [hit |-> cast.hit, distance |-> cast.distance,
                                    point |-> "resultPoint"]))

\* TerrainRaycaster.castRaysAtPoints(points, target) as the caller reads it
\* after the call returns: each result's point is the shared resultPoint
CastRaysAtPoints(points) ==
  LET done == CastEach(points, P3(0, 0, 0), <<>>)
  IN [i \in 1..Len(done.results) |->
        [hit |-> done.results[i].hit, distance |-> done.results[i].distance,
         point |-> done.resultPoint]]

\* raycaster.castRaysAtPoints(points, target) on a new raycaster
CastRays(points) ==
  /\ query' = [op |-> "castRaysAtPoints", x |-> 0, z |-> 0, size |-> 0, segments |-> 0,
               result |-> CastRaysAtPoints(points), threw |-> FALSE,
               road |-> "none", surfaces |-> {}, points |-> points]
  /\ UNCHANGED <<generator, terrain>>

RECURSIVE SeqsUpTo(_, _)
SeqsUpTo(S, n) ==
  IF n = 0 THEN {<<>>}
  ELSE LET shorter == SeqsUpTo(S, n - 1)
       IN shorter \cup {Append(q, e) : q \in shorter, e \in S}

NextR ==
  \/ \E x \in RayCoords, z \in RayCoords, surfaces \in SUBSET SurfaceHeights :
       CastRay(x, z, surfaces) /\ UNCHANGED <<carVars, netVars, pageVars>>
  \/ \E points \in SeqsUpTo(RayPoints, MaxPoints) :
       CastRays(points) /\ UNCHANGED <<carVars, netVars, pageVars>>

SpecRay == InitT /\ [][NextR]_vars

\* base synthesis on its own: the noise function may return any value of
\* [-1, 1] at a sample point; the routines are generateRollingHills
\* ("hills"), generateBaseTerrain ("mountain") and octaveNoise ("octave")
NoiseSamples == {-1000, 250, 1000}

BaseRoutines == {"hills", "mountain", "octave"}

InitB ==
  /\ InitPage
  /\ InitCar
  /\ InitNet
  /\ asset = "four"
  /\ opts = OptDefault
  /\ query = NoQuery
  /\ terrain = NoTerrain
  /\ \E r \in BaseRoutines, t \in [1..NoiseTableSize -> NoiseSamples] :
       generator = [NoGenerator EXCEPT !.status = "ready", !.preset = r, !.table = t]

\* the base-synthesis stage of generate()
BaseStage ==
  /\ generator.status = "ready"
  /\ terrain.base = <<>>
  /\ terrain' = [terrain EXCEPT
                   !.preset = generator.preset,
                   !.metadata = [minHeight |-> 0, maxHeight |-> 0,
                                 size |-> POC_TERRAIN_SIZE,
                                 segments |-> POC_TERRAIN_SEGMENTS],
                   !.base =
                     IF generator.preset = "hills"
                     THEN GenerateRollingHills(generator.table, POC_TERRAIN_SIZE,
                                               POC_TERRAIN_SEGMENTS)
                     ELSE IF generator.preset = "mountain"
                     THEN GenerateBaseTerrain(generator.table, POC_TERRAIN_SIZE,
                                              POC_TERRAIN_SEGMENTS)
                     ELSE GenerateOctaveNoise(generator.table, POC_TERRAIN_SIZE,
                                              POC_TERRAIN_SEGMENTS)]
  /\ UNCHANGED <<generator, query>>

\* one applySmoothingPass / smoothHeightmap on the base terrain
SmoothStage ==
  /\ generator.preset \in Presets
  /\ terrain.base # <<>>
  /\ terrain.smoothed = <<>>
  /\ terrain' = [terrain EXCEPT
                   !.smoothed = ApplySmoothingPass(terrain.base,
                                                   terrain.metadata.segments)]
  /\ UNCHANGED <<generator, query>>

NextB ==
  \/ BaseStage /\ UNCHANGED <<carVars, netVars, pageVars>>
  \/ SmoothStage /\ UNCHANGED <<carVars, netVars, pageVars>>

SpecBase == InitB /\ [][NextB]_vars

\* the multiplayer session on its own
NextN ==
  \/ \E c \in Sockets : Connect(c) /\ UNCHANGED <<carVars, terrainVars, pageVars>>
  \/ \E c \in Sockets : JoinGame(c) /\ UNCHANGED <<carVars, terrainVars, pageVars>>
  \/ \E c \in Sockets, t \in Transforms :
       SendPlayerUpdate(c, t) /\ UNCHANGED <<carVars, terrainVars, pageVars>>
  \/ \E c \in Sockets, p \in SpawnPositions :
       HandleJoinGame(c, p) /\ UNCHANGED <<carVars, terrainVars, pageVars>>
  \/ \E c \in Sockets : HandlePlayerUpdate(c) /\ UNCHANGED <<carVars, terrainVars, pageVars>>
  \/ \E c \in Sockets : Disconnect(c) /\ UNCHANGED <<carVars, terrainVars, pageVars>>
  \/ \E c \in Sockets : Deliver(c) /\ UNCHANGED <<carVars, terrainVars, pageVars>>
  \/ \E c \in Sockets : Frame(c) /\ UNCHANGED <<carVars, terrainVars, pageVars>>

SpecNet == InitT /\ [][NextN]_vars

(***************************************************************************)
(* The session with a socket that writes its own PLAYER_UPDATE payload.     *)
(***************************************************************************)
\* socket.emit(PLAYER_UPDATE, { ...update, id }) from a connected socket
EmitForgedUpdate(c, transform, id) ==
  /\ status[c] = "connected"
  /\ UpdatesSent(Sockets) < MaxUpdates
  /\ clients' = [clients EXCEPT ![c].updatesSent = @ + 1]
  /\ toServer' = [toServer EXCEPT
                    ![c] = Append(@, [type |-> "PLAYER_UPDATE", transform |-> transform,
                                      id |-> id])]
  /\ UNCHANGED <<status, players, toClient>>

NextF ==
  \/ NextN
  \/ \E c \in Sockets, t \in Transforms :
       \E id \in Sockets \ {c} :
         EmitForgedUpdate(c, t, id) /\ UNCHANGED <<carVars, terrainVars, pageVars>>

SpecForge == InitT /\ [][NextF]_vars

(***************************************************************************)
(* The session with transports that drop and reconnect.  The page and its  *)
(* NetworkManager live on; socket.io-client reconnects by default, and the *)
(* new connection has a new socket id.                                     *)
(***************************************************************************)
\* the transport of socket c closes while nothing is in flight to the
\* server: the server runs handleDisconnect, the client keeps its state
TransportDrop(c) ==
  /\ status[c] = "connected"
  /\ toServer[c] = <<>>
  /\ status' = [status EXCEPT ![c] = "dropped"]
  /\ IF players[c] # NoPlayer
     THEN /\ players' = [players EXCEPT ![c] = NoPlayer]
          /\ toClient' = [EmitAll(c, [type |-> "PLAYER_LEFT", id |-> c])
                            EXCEPT ![c] = <<>>]
     ELSE /\ UNCHANGED players
          /\ toClient' = [toClient EXCEPT ![c] = <<>>]
  /\ UNCHANGED <<toServer, clients>>

\* the client of the dropped socket c reconnects as socket d: its 'connect'
\* handler stores the new socket.id, buffered emits are sent, and nothing
\* else runs on the client
Reconnect(c, d) ==
  /\ status[c] = "dropped"
  /\ status[d] = "idle"
  /\ clients[d] = NoClient
  /\ toServer[d] = <<>>
  /\ status' = [status EXCEPT ![c] = "closed", ![d] = "connected"]
  /\ clients' = [clients EXCEPT ![d] = [clients[c] EXCEPT !.playerId = d],
                                ![c] = NoClient]
  /\ toServer' = [toServer EXCEPT ![d] = toServer[c], ![c] = <<>>]
  /\ UNCHANGED <<players, toClient>>

NextC ==
  \/ NextN
  \/ \E c \in Sockets : TransportDrop(c) /\ UNCHANGED <<carVars, terrainVars, pageVars>>
  \/ \E c, d \in Sockets : Reconnect(c, d) /\ UNCHANGED <<carVars, terrainVars, pageVars>>

SpecReconnect == InitT /\ [][NextC]_vars

(***************************************************************************)
(* A WheelSystem and a TerrainFollower used through their own methods, in   *)
(* any order and on any model.                                             *)
(***************************************************************************)
\* WheelSystem.detectWheels(model, wheelRadius) on the model of asset a
DetectWheels(a) ==
  LET selected == SelectedWheels(Assets[a])
  IN /\ asset' = a
     /\ IF DetectOk(Assets[a])
        THEN /\ wheels' = selected
             /\ wheelBottomOffset' = CalcWheelBottomOffset(selected, wheelBottomOffset)
             /\ initialized' = TRUE
        ELSE /\ wheels' = <<>>
             /\ UNCHANGED <<wheelBottomOffset, initialized>>
     /\ last' = Idle("detectWheels", Len(wheels'))
     /\ UNCHANGED <<opts, isReady, posY, rotX, rotZ, currentPitch, currentRoll,
                    raycastResults>>

\* WheelSystem.reset()
Reset ==
  /\ wheels' = <<>>
  /\ wheelBottomOffset' = 0
  /\ initialized' = FALSE
  /\ last' = Idle("reset", 0)
  /\ UNCHANGED <<asset, opts, isReady, posY, rotX, rotZ, currentPitch, currentRoll,
                 raycastResults>>

\* TerrainFollower.update(model, wheelSystem) on the wheel system as it is
FollowerStep ==
  /\ \E rays \in FrameRays(Len(wheels)) : FollowerUpdate(rays)
  /\ UNCHANGED <<asset, opts, isReady, wheels, initialized, wheelBottomOffset>>

InitW ==
  /\ InitPage
  /\ InitCar
  /\ InitNet
  /\ asset = "none"
  /\ opts = OptDefault
  /\ InitTerrain

NextW ==
  \/ \E a \in AssetNames : DetectWheels(a) /\ UNCHANGED <<terrainVars, netVars, pageVars>>
  \/ Reset /\ UNCHANGED <<terrainVars, netVars, pageVars>>
  \/ FollowerStep /\ UNCHANGED <<terrainVars, netVars, pageVars>>

SpecWheels == InitW /\ [][NextW]_vars

(***************************************************************************)
(* The join handler with username validation, against sockets that emit    *)
(* any payload.  A username is undefined, a number, or a string; a string   *)
(* is a sequence of characters.  The colour of the payload is left out: it   *)
(* never rejects a join.                                                    *)
(***************************************************************************)
MIN_USERNAME_LENGTH == 1

MAX_USERNAME_LENGTH == 20

\* what String.prototype.trim removes, as far as the inputs have it
Whitespace == {" ", "\t"}

\* /^[a-zA-Z0-9 _-]+$/ over the characters the inputs have
UsernameChars == {"a", "b", "Z", "7", " ", "_", "-"}

RECURSIVE TrimStart(_)
TrimStart(chars) ==
  IF chars # <<>> /\ Head(chars) \in Whitespace THEN TrimStart(Tail(chars)) ELSE chars

RECURSIVE TrimEnd(_)
TrimEnd(chars) ==
  IF chars # <<>> /\ chars[Len(chars)] \in Whitespace
  THEN TrimEnd(SubSeq(chars, 1, Len(chars) - 1))
  ELSE chars

\* username.trim()
Trim(chars) == TrimEnd(TrimStart(chars))

Str(chars) == [kind |-> "string", chars |-> chars]

\* !username
Falsy(username) ==
  \/ username.kind = "undefined"
  \/ username.kind = "number" /\ username.value = 0
  \/ username.kind = "string" /\ username.chars = <<>>

Invalid(error) == [isValid |-> FALSE, error |-> error]

\* a validation that tests no character
ValidateUsername_AnyCharacter(username) ==
  IF Falsy(username) THEN Invalid("Username is required")
  ELSE IF username.kind # "string" THEN Invalid("Username must be a string")
  ELSE IF Len(Trim(username.chars)) = 0 THEN Invalid("Username cannot be empty")
  ELSE IF Len(Trim(username.chars)) > MAX_USERNAME_LENGTH
       THEN Invalid("Username must be at most 20 characters")
  ELSE [isValid |-> TRUE]

\* validateUsername
ValidateUsername(username) ==
  IF Falsy(username) THEN Invalid("Username is required")
  ELSE IF username.kind # "string" THEN Invalid("Username must be a string")
  ELSE LET trimmedUsername == Trim(username.chars)
       IN IF Len(trimmedUsername) = 0 THEN Invalid("Username cannot be empty")
          ELSE IF Len(trimmedUsername) < MIN_USERNAME_LENGTH
               THEN Invalid("Username must be at least 1 characters")
          ELSE IF Len(trimmedUsername) > MAX_USERNAME_LENGTH
               THEN Invalid("Username must be at most 20 characters")
          ELSE IF \E i \in 1..Len(trimmedUsername) : trimmedUsername[i] \notin UsernameChars
               THEN Invalid("Username can only contain letters, numbers, spaces, underscores, and hyphens")
          ELSE [isValid |-> TRUE]

\* sanitizeUsername
SanitizeUsername(username) == Str(Trim(username.chars))

RECURSIVE Rep(_, _)
Rep(ch, n) == IF n = 0 THEN <<>> ELSE Append(Rep(ch, n - 1), ch)

\* the usernames the sockets send: not strings, empty, around the length
\* limit, with surrounding whitespace, with characters the pattern refuses
Usernames ==
  {[kind |-> "undefined"], [kind |-> "number", value |-> 0], [kind |-> "number", value |-> 5],
   Str(<<>>), Str(<<" ", "\t">>), Str(<<"a">>), Str(<<"\t", "a", " ", "Z", " ">>),
   Str(<<"a", "!">>), Str(<<"a", "\t", "b">>),
   Str(Rep("a", MAX_USERNAME_LENGTH)),
   Str(<<" ">> \o Rep("_", MAX_USERNAME_LENGTH) \o <<" ">>),
   Str(Rep("b", MAX_USERNAME_LENGTH + 1))}

\* JOIN_GAME events emitted so far, over all sockets
RECURSIVE JoinsSent(_)
JoinsSent(ids) ==
  IF ids = {} THEN 0
  ELSE LET i == CHOOSE j \in ids : TRUE
       IN clients[i].joinsSent + JoinsSent(ids \ {i})

\* a socket emits JOIN_GAME with a payload of its choosing
EmitJoinGame(c, username) ==
  /\ status[c] = "connected"
  /\ toServer[c] = <<>>
  /\ JoinsSent(Sockets) < MaxJoins
  /\ clients' = [clients EXCEPT ![c].joinsSent = @ + 1]
  /\ toServer' = [toServer EXCEPT
                    ![c] = Append(@, [type |-> "JOIN_GAME", username |-> username])]
  /\ UNCHANGED <<status, players, toClient>>

\* handleJoinGame with validateUsername and sanitizeUsername
HandleJoinGameValidated(c, spawnPosition) ==
  /\ status[c] = "connected"
  /\ toServer[c] # <<>>
  /\ Head(toServer[c]).type = "JOIN_GAME"
  /\ LET payload == Head(toServer[c])
         usernameValidation == ValidateUsername(payload.username)
         player == [id |-> c, username |-> SanitizeUsername(payload.username),
                    transform |-> Tf(spawnPosition, DEFAULT_PLAYER_ROTATION)]
         state == [players EXCEPT ![c] = player]
     IN IF ~usernameValidation.isValid
        THEN /\ toClient' = [toClient EXCEPT
                               ![c] = Append(@, [type |-> "error",
                                                 message |-> usernameValidation.error])]
             /\ UNCHANGED players
        ELSE /\ players' = state
             /\ toClient' = [BroadcastFrom(c, [type |-> "PLAYER_JOINED", player |-> player])
                               EXCEPT ![c] = Append(toClient[c],
                                                    [type |-> "GAME_STATE", players |-> state])]
  /\ toServer' = [toServer EXCEPT ![c] = Tail(@)]
  /\ UNCHANGED <<status, clients>>

InitJ ==
  /\ InitPage
  /\ InitCar /\ InitTerrain
  /\ asset = "four"
  /\ opts = OptDefault
  /\ status = [c \in Sockets |-> "idle"]
  /\ players = [c \in Sockets |-> NoPlayer]
  /\ toServer = [c \in Sockets |-> <<>>]
  /\ toClient = [c \in Sockets |-> <<>>]
  /\ clients = [c \in Sockets |-> [playerId |-> 0, joinsSent |-> 0]]

NextJ ==
  \/ \E c \in Sockets : Connect(c) /\ UNCHANGED <<carVars, terrainVars, pageVars>>
  \/ \E c \in Sockets, u \in Usernames :
       EmitJoinGame(c, u) /\ UNCHANGED <<carVars, terrainVars, pageVars>>
  \/ \E c \in Sockets, p \in SpawnPositions :
       HandleJoinGameValidated(c, p) /\ UNCHANGED <<carVars, terrainVars, pageVars>>

SpecJoin == InitJ /\ [][NextJ]_vars

\* steering on its own: the car is loaded, keys go down and up, frames tick
NextK ==
  \/ Load /\ UNCHANGED <<terrainVars, netVars, pageVars>>
  \/ \E k \in TurnKeys : KeyDown(k) /\ UNCHANGED <<carVars, terrainVars, netVars>>
  \/ \E k \in TurnKeys : KeyUp(k) /\ UNCHANGED <<carVars, terrainVars, netVars>>
  \/ SteerTick /\ UNCHANGED <<carVars, terrainVars, netVars>>

SpecSteer == InitT /\ [][NextK]_vars

\* the animation loop calls update on every frame for as long as the page lives
SpecSteerLive == SpecSteer /\ WF_vars(SteerTick /\ UNCHANGED <<carVars, terrainVars, netVars>>)

\* the error display on its own
NextE ==
  \/ \E m \in Messages, d \in Durations :
       Show(m, d) /\ UNCHANGED <<carVars, terrainVars, netVars>>
  \/ \E t \in timers : TimerFires(t) /\ UNCHANGED <<carVars, terrainVars, netVars>>
  \/ Advance /\ UNCHANGED <<carVars, terrainVars, netVars>>

SpecDisplay == InitT /\ [][NextE]_vars

(***************************************************************************)
(* Properties of the terrain follower.                                     *)
(***************************************************************************)
\* the operations a PlayerCar.update step can record
TickOps == {"update", "simple", "notInitialized"}

\* C1: in TerrainFollower.update every wheel whose ray missed gets the
\* terrain's getHeightAt at its position as ground height.
C1_MissFallsBackToHeightAt ==
  last.op = "update" => last.missFallback

\* C2: with height smoothing disabled an update puts the model at the mean of
\* the wheels' ground heights minus the wheel-bottom offset plus the height
\* offset; with 4 wheels all hitting level terrain of height h that is
\* h - wheelBottomOffset + heightOffset, and pitch and roll that were 0 stay 0.
C2_TargetHeight ==
  [][ (last'.op = "update" /\ opts.heightSmoothing = 0) =>
        /\ last'.n > 0
        /\ posY' = Num(SumSeq(SubSeq(raycastResults', 1, last'.n)) \div last'.n
                       - wheelBottomOffset + opts.heightOffset)
        /\ (last'.n = 4 /\ last'.allHit /\ last'.flat) =>
             /\ \E h \in Heights :
                  /\ \A i \in 1..4 : raycastResults'[i] = h
                  /\ posY' = Num(h - wheelBottomOffset + opts.heightOffset)
             /\ (rotX = 0 /\ rotZ = 0 /\ currentPitch = 0 /\ currentRoll = 0) =>
                  (rotX' = 0 /\ rotZ' = 0)
    ]_vars

C2_Witness ==
  /\ last.op = "update" /\ last.n = 4 /\ last.allHit /\ last.flat
  /\ opts.heightSmoothing = 0 /\ opts.enableRotation /\ last.rotationApplied
  /\ raycastResults[1] = HeightStep
  /\ posY = Num(HeightStep - wheelBottomOffset + opts.heightOffset)
  /\ opts.heightOffset > 0
  /\ rotX = 0 /\ rotZ = 0

\* C4: with rotation following on and 4 wheels, a layout whose wheelbase is
\* zero but whose track width is positive (or the reverse) still gets the
\* rotation of the other axis applied by update.
C4_DegenerateAxisOnly ==
  LET d == GetWheelDimensions(wheels)
  IN (/\ last.op = "update" /\ opts.enableRotation /\ last.n >= 4
      /\ \/ d.wheelbase = 0 /\ d.trackWidth > 0
         \/ d.trackWidth = 0 /\ d.wheelbase > 0)
     => last.rotationApplied

\* C5: on a car model with exactly one wheel anchor every PlayerCar.update
\* takes the simple path: the model is put at the ground height under it
\* plus 0.5, a finite value, and pitch and roll are left as they were.
C5_OneWheelSimplePath ==
  [][ (Len(SelectedWheels(Assets[asset])) = 1 /\ last'.op \in TickOps) =>
        /\ last'.op = "simple"
        /\ ~posY'.nan
        /\ \E h \in Heights : posY' = Num(h + SIMPLE_HEIGHT_OFFSET)
        /\ rotX' = rotX /\ rotZ' = rotZ
    ]_vars

C5_Witness ==
  /\ Len(SelectedWheels(Assets[asset])) = 1
  /\ last.op = "simple" /\ ~last.allHit
  /\ posY = Num(HeightStep + SIMPLE_HEIGHT_OFFSET)

\* C6: an update over fewer than 4 wheels never touches pitch or roll, also
\* with rotation following enabled; it only sets the vertical position.
C6_NoRotationBelowFourWheels ==
  [][ (last'.op = "update" /\ last'.n < 4) =>
        /\ ~last'.rotationApplied
        /\ rotX' = rotX /\ rotZ' = rotZ
        /\ currentPitch' = currentPitch /\ currentRoll' = currentRoll
    ]_vars

C6_Witness ==
  /\ last.op = "update" /\ last.n = 3 /\ opts.enableRotation
  /\ raycastResults[1] # raycastResults[3]
  /\ posY # Num(0)

\* C7: after every update the applied pitch and roll are within the
\* configured maximum angles (all option sets have rotation smoothing in 0..1).
C7_AnglesWithinMaximum ==
  /\ opts.rotationSmoothing \in 0..100
  /\ Abs(rotZ) <= opts.maxPitchAngle
  /\ Abs(rotX) <= opts.maxRollAngle
  /\ Abs(currentPitch) <= opts.maxPitchAngle
  /\ Abs(currentRoll) <= opts.maxRollAngle

C7_Witness ==
  /\ last.op = "update" /\ last.rotationApplied
  /\ opts.rotationSmoothing > 0
  /\ rotZ = opts.maxPitchAngle

(***************************************************************************)
(* Properties of the terrain.                                              *)
(***************************************************************************)
\* the pairs of horizontally or vertically adjacent vertices of the grid
AdjacentPairs(segments) ==
  {<<i, j>> \in (1..VertexCount(segments)) \X (1..VertexCount(segments)) :
     \/ j = i + 1 /\ RowOf(i, segments) = RowOf(j, segments)
     \/ j = i + segments + 1}

\* C3: after limitSlopes every pair of adjacent vertices, boundary vertices
\* included, differs in height by at most tan(maxSlope) * cellSize
C3_SlopesLimited ==
  (terrain.preset = "mountain" /\ terrain.limited # <<>>) =>
    \A pr \in AdjacentPairs(terrain.metadata.segments) :
      Abs(terrain.limited[pr[1]] - terrain.limited[pr[2]])
        <= MaxHeightDiff(terrain.metadata.size, terrain.metadata.segments)

StrictlyInside(c, size) == 2 * c > -size /\ 2 * c < size

\* C9: for a point strictly inside the terrain, getHeightAt on the generated
\* heightmap returns a finite value between the minHeight and maxHeight of
\* the metadata returned with that heightmap
C9_HeightWithinMetadata ==
  (/\ query.op = "getHeightAt"
   /\ query.size = terrain.metadata.size
   /\ query.segments = terrain.metadata.segments
   /\ StrictlyInside(query.x, query.size)
   /\ StrictlyInside(query.z, query.size)) =>
     /\ ~query.result.nan
     /\ query.result.v >= terrain.metadata.minHeight
     /\ query.result.v <= terrain.metadata.maxHeight

\* a query inside a cell whose corners differ, answered strictly between them
C9_Witness ==
  /\ query.op = "getHeightAt"
  /\ query.size = terrain.metadata.size
  /\ query.segments = terrain.metadata.segments
  /\ query.x = 3
  /\ query.z = 3
  /\ ~query.result.nan
  /\ query.result.v > terrain.metadata.minHeight
  /\ query.result.v < terrain.metadata.maxHeight

DegenerateRoads ==
  {r \in DOMAIN ControlPoints :
     \A k \in 1..Len(ControlPoints[r]) : ControlPoints[r][k] = ControlPoints[r][1]}

\* C10: invalid input (size <= 0, segments < 1, empty or degenerate control
\* points) fails with an error: no generator is built from such control
\* points and no height comes back for such a grid
C10_InvalidInputRejected ==
  /\ (query.op = "getHeightAt" /\ (query.size <= 0 \/ query.segments < 1)) => query.threw
  /\ generator.road \in DegenerateRoads => generator.status # "ready"

\* the radius of the road stage of a preset, the factor it computed for a
\* vertex, and the factor it computes for a distance
BlendRadius(preset) ==
  IF preset = "hills" THEN ROAD_SMOOTHING_RADIUS ELSE ROAD_INFLUENCE_RADIUS

BlendFactorOf(preset, b) ==
  IF preset = "hills" THEN b.smoothFactor ELSE b.influenceFactor

BlendFactorAt(preset, distance) ==
  IF preset = "hills" THEN SmoothFactor(distance) ELSE InfluenceFactor(distance)

\* the road stage of the generated terrain: a vertex at or beyond the radius
\* keeps its height, a vertex within the radius is blended, and the factor
\* does not increase with the distance and is 0 at the radius
BlendDecays ==
  LET r == BlendRadius(terrain.preset)
      n == Len(terrain.heightmap)
  IN /\ \A i \in 1..n :
          IF terrain.blend[i].distance >= r
          THEN ~terrain.blend[i].applies /\ terrain.heightmap[i] = terrain.limited[i]
          ELSE terrain.blend[i].applies
     /\ \A i, j \in 1..n :
          (/\ terrain.blend[i].applies /\ terrain.blend[j].applies
           /\ terrain.blend[i].distance <= terrain.blend[j].distance) =>
            BlendFactorOf(terrain.preset, terrain.blend[i])
              >= BlendFactorOf(terrain.preset, terrain.blend[j])
     /\ \A d \in 0..(r - 1) :
          BlendFactorAt(terrain.preset, d) >= BlendFactorAt(terrain.preset, d + 1)
     /\ BlendFactorAt(terrain.preset, r) = 0

\* factor = 1 - (distance / radius)^strength for the strength 2.5: 1 on the
\* road, and between 1 - n^2 and 1 - n^3 for the normalized distance n
PowerLawFactor(preset, b) ==
  LET n == (b.distance * 1000) \div BlendRadius(preset)
      f == BlendFactorOf(preset, b)
  IN /\ b.distance = 0 => f = 1000
     /\ f + 1 >= 1000 - (n * n) \div 1000
     /\ f <= 1000 - (n * n * n) \div 1000000 + 1

\* factor = (1 - distance / radius) * strength: the strength on the road
LinearFactor(preset, b) ==
  LET n == (b.distance * 1000) \div BlendRadius(preset)
      f == BlendFactorOf(preset, b)
  IN /\ b.distance = 0 => f = ROAD_SMOOTHING_STRENGTH
     /\ f = ((1000 - n) * ROAD_SMOOTHING_STRENGTH) \div 1000

\* C11 as stated: in every road-integration mode the blend factor is
\* 1 - (distance / radius)^strength, 1 on the road, non-increasing with the
\* distance, 0 at the radius; vertices at or beyond the radius are unchanged
C11_BlendFactor ==
  terrain.generated =>
    /\ BlendDecays
    /\ \A i \in 1..Len(terrain.heightmap) :
         terrain.blend[i].applies => PowerLawFactor(terrain.preset, terrain.blend[i])

\* C11 amended: the factor is 1 - (distance / radius)^strength, 1 on the
\* road, in the flattening mode, and (1 - distance / radius) * strength, the
\* strength 0.7 on the road, in the smoothing mode; in both modes it is
\* non-increasing with the distance and 0 at the radius, and vertices at or
\* beyond the radius are unchanged
C11_BlendFactorByMode ==
  terrain.generated =>
    /\ BlendDecays
    /\ \A i \in 1..Len(terrain.heightmap) :
         terrain.blend[i].applies =>
           IF terrain.preset = "hills"
           THEN LinearFactor(terrain.preset, terrain.blend[i])
           ELSE PowerLawFactor(terrain.preset, terrain.blend[i])

\* a smoothed terrain with a vertex on the road and a vertex off the road
\* that the stage moved with a smaller factor
C11_Witness ==
  /\ terrain.generated
  /\ terrain.preset = "hills"
  /\ \E i, j \in 1..Len(terrain.heightmap) :
       /\ terrain.blend[i].applies /\ terrain.blend[i].distance = 0
       /\ terrain.blend[i].smoothFactor = ROAD_SMOOTHING_STRENGTH
       /\ terrain.blend[j].applies /\ terrain.blend[j].distance > 0
       /\ terrain.blend[j].smoothFactor < ROAD_SMOOTHING_STRENGTH
       /\ terrain.heightmap[j] # terrain.limited[j]

\* base elevation and height multiplier of a base-synthesis routine
BaseElevation(routine) ==
  IF routine = "hills" THEN ROLLING_HILLS_BASE_ELEVATION ELSE 0

HeightRange(routine) ==
  IF routine = "hills" THEN ROLLING_HILLS_HEIGHT * 1000
  ELSE IF routine = "mountain" THEN HEIGHT_MULTIPLIER
  ELSE 1000

\* C12: every base-synthesis routine divides the amplitude-weighted sum of
\* its noise samples by the sum of the amplitudes, so with noise samples in
\* [-1, 1] every base height lies within base elevation +/- height multiplier
C12_BaseNormalized ==
  terrain.base # <<>> =>
    \A i \in 1..Len(terrain.base) :
      /\ terrain.base[i] >= BaseElevation(terrain.preset) - HeightRange(terrain.preset)
      /\ terrain.base[i] <= BaseElevation(terrain.preset) + HeightRange(terrain.preset)

\* C13: findClosestPoint returns the first sample, in sample order, whose
\* planar (X/Z only) distance to the query point is minimal: the distance is
\* that minimum and roadElevation is the Y of that sample, the earliest of
\* several equidistant samples
C13_FirstClosestSample ==
  query.op = "findClosestPoint" =>
    LET samples == PrecomputeSamples(ControlPoints[query.road], SampleCount)
        dsq(k) == (query.x - samples[k].x) * (query.x - samples[k].x)
                    + (query.z - samples[k].z) * (query.z - samples[k].z)
        first == CHOOSE k \in 1..Len(samples) :
                   /\ \A j \in 1..Len(samples) : dsq(k) <= dsq(j)
                   /\ \A j \in 1..(k - 1) : dsq(j) > dsq(k)
    IN /\ query.result.found
       /\ query.result.distance = ISqrt(dsq(first))
       /\ query.result.roadElevation = samples[first].y

\* a query with two equidistant closest samples of different elevation,
\* answered with the elevation of the earlier one
C13_Witness ==
  /\ query.op = "findClosestPoint"
  /\ LET samples == PrecomputeSamples(ControlPoints[query.road], SampleCount)
         dsq(k) == (query.x - samples[k].x) * (query.x - samples[k].x)
                     + (query.z - samples[k].z) * (query.z - samples[k].z)
     IN \E k, l \in 1..Len(samples) :
          /\ k < l
          /\ dsq(k) = dsq(l)
          /\ \A j \in 1..Len(samples) : dsq(k) <= dsq(j)
          /\ samples[k].y # samples[l].y
          /\ query.result.roadElevation = samples[k].y

\* the samples of the road the terrain was generated for
TerrainSamples == PrecomputeSamples(ControlPoints[terrain.road], SampleCount)

\* C14: generate() applies base synthesis, smoothing, edge falloff, slope
\* limiting (in the preset that has it) and road integration in this order,
\* each stage on the result of the one before, and computes the metadata
\* last: minHeight and maxHeight are the minimum and the maximum over the
\* cells of the returned heightmap
C14_StageOrder ==
  terrain.generated =>
    LET size == terrain.metadata.size
        segments == terrain.metadata.segments
        n == Len(terrain.heightmap)
    IN /\ terrain.smoothed =
            IF terrain.preset = "hills"
            THEN ApplyMultipleSmoothing(terrain.base, segments, SMOOTHING_PASSES)
            ELSE ApplySmoothingPass(terrain.base, segments)
       /\ terrain.falloff =
            IF terrain.preset = "hills"
            THEN ApplyEdgeFalloff(terrain.smoothed, size, segments, 700, 3)
            ELSE ApplyEdgeFalloff(terrain.smoothed, size, segments, 600, 2)
       /\ terrain.limited =
            IF terrain.preset = "hills" THEN terrain.falloff
            ELSE LimitSlopes(terrain.falloff, size, segments)
       /\ terrain.heightmap =
            IF terrain.preset = "hills"
            THEN ApplyRoadSmoothing(terrain.limited, TerrainSamples, segments)
            ELSE ApplyRoadFlattening(terrain.limited, TerrainSamples, segments)
       /\ \A i \in 1..n :
            /\ terrain.metadata.minHeight <= terrain.heightmap[i]
            /\ terrain.metadata.maxHeight >= terrain.heightmap[i]
       /\ \E i \in 1..n : terrain.metadata.minHeight = terrain.heightmap[i]
       /\ \E i \in 1..n : terrain.metadata.maxHeight = terrain.heightmap[i]

\* a generated terrain on which every stage changed the heightmap and the
\* road stage moved its highest or lowest cell
C14_Witness ==
  /\ terrain.generated
  /\ terrain.preset = "mountain"
  /\ terrain.smoothed # terrain.base
  /\ terrain.falloff # terrain.smoothed
  /\ terrain.limited # terrain.falloff
  /\ terrain.heightmap # terrain.limited
  /\ \/ terrain.metadata.minHeight # MinHeightFrom(terrain.limited, 1)
     \/ terrain.metadata.maxHeight # MaxHeightFrom(terrain.limited, 1)

\* C15: castRayDown on a miss returns hit = false with the point (x, 0, z) of
\* the queried x and z, on a hit hit = true with the first intersection
\* point, and never throws
C15_RayResult ==
  query.op = "castRayDown" =>
    LET below == {y \in query.surfaces : y <= DefaultStartHeight}
    IN /\ ~query.threw
       /\ IF below = {}
          THEN /\ ~query.result.hit
               /\ query.result.point = P3(query.x, 0, query.z)
          ELSE /\ query.result.hit
               /\ query.result.point.x = query.x
               /\ query.result.point.z = query.z
               /\ query.result.point.y \in below
               /\ \A y \in below : y <= query.result.point.y

\* a miss away from the origin under a target that has only a surface above
\* the ray's start
C15_Witness ==
  /\ query.op = "castRayDown"
  /\ query.x = 7
  /\ query.z = -18
  /\ query.surfaces = {DefaultStartHeight + 12}
  /\ ~query.result.hit
  /\ query.result.point = P3(7, 0, -18)

\* C16: for every point outside [-size/2, size/2]^2 getHeightAt returns 0,
\* raises no error and reads no element outside the heightmap array
C16_OutsideReturnsZero ==
  (/\ query.op = "getHeightAt"
   /\ query.size = terrain.metadata.size
   /\ query.segments = terrain.metadata.segments
   /\ \/ 2 * query.x < -query.size \/ 2 * query.x > query.size
      \/ 2 * query.z < -query.size \/ 2 * query.z > query.size) =>
     /\ ~query.threw
     /\ query.result = Num(0)
     /\ \A i \in query.reads : i \in 0..(Len(terrain.heightmap) - 1)

\* a query beyond the far edge in z over a terrain that is not flat
C16_Witness ==
  /\ query.op = "getHeightAt"
  /\ query.size = terrain.metadata.size
  /\ query.segments = terrain.metadata.segments
  /\ query.x = 3
  /\ 2 * query.z > query.size
  /\ terrain.metadata.maxHeight > 0
  /\ query.result = Num(0)

\* C17: a smoothing pass changes interior cells only: a cell of row or
\* column 0 or segments keeps its value, and an interior cell becomes the
\* 4/2/1-weighted (sum 16) average of its 3x3 neighbourhood in the values
\* before the pass, whatever the order in which the cells are visited
C17_SmoothingInteriorOnly ==
  (terrain.smoothed # <<>> /\ ~terrain.generated) =>
    LET segments == terrain.metadata.segments
        w == segments + 1
        before == terrain.base
    IN \A i \in 1..Len(before) :
         IF RowOf(i, segments) \in {0, segments} \/ ColOf(i, segments) \in {0, segments}
         THEN terrain.smoothed[i] = before[i]
         ELSE terrain.smoothed[i] =
                (4 * before[i]
                 + 2 * (before[i - w] + before[i + w] + before[i - 1] + before[i + 1])
                 + (before[i - w - 1] + before[i - w + 1]
                    + before[i + w - 1] + before[i + w + 1])) \div 16

\* a pass over a terrain whose boundary is not flat and which moved an
\* interior cell that is visited after a changed neighbour
C17_Witness ==
  /\ terrain.smoothed # <<>>
  /\ ~terrain.generated
  /\ \E i \in 1..Len(terrain.base) :
       ~IsInterior(i, terrain.metadata.segments) /\ terrain.base[i] # terrain.base[1]
  /\ \E i \in 1..Len(terrain.base) :
       /\ IsInterior(i, terrain.metadata.segments)
       /\ IsInterior(i - 1, terrain.metadata.segments)
       /\ terrain.smoothed[i] # terrain.base[i]
       /\ terrain.smoothed[i - 1] # terrain.base[i - 1]

(***************************************************************************)
(* Properties of the multiplayer session.                                  *)
(***************************************************************************)
\* the step delivers the event at the head of the client's queue
Delivers(c) ==
  /\ status[c] = "connected" /\ status'[c] = "connected"
  /\ toClient[c] # <<>>
  /\ toClient'[c] = Tail(toClient[c])

\* C18: for a remote player, updatePlayer replaces only the stored target
\* and leaves the model's transform as it is; the model's transform changes
\* only in update(), which moves it toward the target by the fixed factor
C18_TargetHandoff ==
  [][\A c, i \in Sockets :
       (clients[c].players[i] # NoRemote /\ clients'[c].players[i] # NoRemote) =>
         LET old == clients[c].players[i]
             new == clients'[c].players[i]
         IN /\ (/\ Delivers(c)
                 /\ Head(toClient[c]).type = "PLAYER_UPDATED"
                 /\ Head(toClient[c]).id = i) =>
                  /\ new.model = old.model
                  /\ new.target = Head(toClient[c]).transform
            /\ new.model # old.model =>
                  /\ toClient' = toClient
                  /\ new.target = old.target
                  /\ new.model.position =
                       old.model.position
                         + ((old.target.position - old.model.position)
                              * REMOTE_PLAYER_LERP_SPEED) \div 10
                  /\ new.model.rotation =
                       old.model.rotation
                         + ((old.target.rotation - old.model.rotation)
                              * REMOTE_PLAYER_LERP_SPEED) \div 10]_vars

\* a remote player whose target an update replaced and whose model one
\* frame has moved a fifth of the way
C18_Witness ==
  \E c, i \in Sockets :
    /\ clients[c].players[i] # NoRemote
    /\ clients[c].players[i].target = Tf(5, 5)
    /\ clients[c].players[i].model = Tf(1, 1)

\* the ids a client holds as remote players, and the ids of the server's
\* player set
RemoteIds(c) == {i \in Sockets : clients[c].players[i] # NoRemote}

ServerIds == {i \in Sockets : players[i] # NoPlayer}

\* C19: a connected client never holds itself as a remote player and never
\* has two models for one id; once its join is processed and every event in
\* flight to it is delivered, it holds the server's players minus itself
C19_RemoteSetMatchesServer ==
  \A c \in Sockets :
    status[c] = "connected" =>
      /\ c \notin RemoteIds(c)
      /\ \A i \in Sockets :
           clients[c].scene[i] = IF i \in RemoteIds(c) THEN 1 ELSE 0
      /\ (c \in ServerIds /\ toClient[c] = <<>>) => RemoteIds(c) = ServerIds \ {c}

\* two joined clients, one with nothing in flight, each holding the other
C19_Witness ==
  \E c, i \in Sockets :
    /\ c # i
    /\ status[c] = "connected"
    /\ c \in ServerIds
    /\ toClient[c] = <<>>
    /\ i \in ServerIds
    /\ RemoteIds(c) = {i}
    /\ clients[i].players[c] # NoRemote

\* the step is the server handling a PLAYER_UPDATE of socket c
HandlesUpdate(c) ==
  /\ status[c] = "connected" /\ status'[c] = "connected"
  /\ toServer[c] # <<>>
  /\ Head(toServer[c]).type = "PLAYER_UPDATE"
  /\ toServer'[c] = Tail(toServer[c])

HandlesJoin(c) ==
  /\ status[c] = "connected"
  /\ toServer[c] # <<>>
  /\ Head(toServer[c]).type = "JOIN_GAME"
  /\ toServer'[c] = Tail(toServer[c])

\* a username that fails validation: missing, not a string, empty after
\* trimming, longer than the maximum, or with a character outside letters,
\* digits, space, underscore and hyphen
FailsValidation(username) ==
  \/ username.kind # "string"
  \/ Trim(username.chars) = <<>>
  \/ Len(Trim(username.chars)) > 20
  \/ \E i \in 1..Len(Trim(username.chars)) :
       Trim(username.chars)[i] \notin {"a", "b", "Z", "7", " ", "_", "-"}

\* the trimmed forms of the usernames that pass
TrimmedValidUsernames ==
  {Str(Trim(u.chars)) : u \in {v \in Usernames : ~FailsValidation(v)}}

\* every stored username is the trimmed form of a valid one
StoredUsernamesValid ==
  \A c \in Sockets :
    players[c] # NoPlayer => players[c].username \in TrimmedValidUsernames

C22_InitializedHasWheels ==
  /\ initialized => Len(wheels) >= MinWheels
  /\ last.op = "update" => last.n > 0

(***************************************************************************)
(* Properties of the batched ray cast.                                     *)
(***************************************************************************)
\* C24: castRaysAtPoints returns one result per point in input order, and
\* after the call result[i].point and result[i].hit are those of the ray
\* cast at points[i]
C24_ResultsPerPoint ==
  query.op = "castRaysAtPoints" =>
    /\ Len(query.result) = Len(query.points)
    /\ \A i \in 1..Len(query.points) :
         LET own == CastRayDownAt(query.points[i].x, query.points[i].z,
                                  query.points[i].surfaces)
         IN /\ query.result[i].hit = own.hit
            /\ query.result[i].point = own.point

(***************************************************************************)
(* Properties of the relay and of the server's player set.                 *)
(***************************************************************************)
\* C23: every PLAYER_UPDATED the server relays carries the socket id of the
\* client that sent the PLAYER_UPDATE, whatever the payload holds
C23_RelayedUnderSenderId ==
  [][\A c \in Sockets :
       HandlesUpdate(c) =>
         \A r \in Sockets :
           \A k \in (Len(toClient[r]) + 1)..Len(toClient'[r]) :
             toClient'[r][k].type = "PLAYER_UPDATED" => toClient'[r][k].id = c]_vars

\* the server has processed the JOIN_GAME of the client now at socket c
JoinProcessed(c) ==
  /\ clients[c].joinSent
  /\ \A k \in 1..Len(toServer[c]) : toServer[c][k].type # "JOIN_GAME"

\* C25: a client that has joined and is connected is in the server's
\* player set, also after its transport reconnected under a new socket id,
\* and every PLAYER_UPDATE it sends is applied to its record and relayed to
\* the other connected clients
C25_JoinedClientServed ==
  [][\A c \in Sockets :
       /\ (status[c] = "connected" /\ JoinProcessed(c)) => players[c] # NoPlayer
       /\ (HandlesUpdate(c) /\ JoinProcessed(c)) =>
            /\ players'[c] # NoPlayer
            /\ players'[c].transform = Head(toServer[c]).transform
            /\ \A r \in Sockets \ {c} :
                 status[r] = "connected" =>
                   /\ Len(toClient'[r]) = Len(toClient[r]) + 1
                   /\ toClient'[r][Len(toClient'[r])].type = "PLAYER_UPDATED"]_vars

\* GameStateManager.getPlayerCount(), the players value of GET /health
GetPlayerCount == Cardinality({i \in Sockets : players[i] # NoPlayer})

\* the step is the disconnect of socket c
Disconnects(c) == status[c] = "connected" /\ status'[c] = "closed"

\* C26: the server's player set is the set of sockets that have joined and
\* not disconnected, the health endpoint's count is its size, and
\* PLAYER_LEFT goes out exactly once for a disconnect of a joined socket and
\* not at all for a socket that never joined
C26_PlayerSetIsJoinedSockets ==
  [][/\ ServerIds' = {c \in Sockets : status'[c] = "connected" /\ JoinProcessed(c)'}
     /\ GetPlayerCount' = Cardinality(ServerIds')
     /\ \A c \in Sockets :
          Disconnects(c) =>
            \A r \in Sockets \ {c} :
              toClient'[r] =
                IF status[r] = "connected" /\ status[c] = "connected" /\ JoinProcessed(c)
                THEN Append(toClient[r], [type |-> "PLAYER_LEFT", id |-> c])
                ELSE toClient[r]]_vars

\* a joined socket has disconnected: it is out of the player set, the other
\* joined socket is in it and has the one PLAYER_LEFT in flight
C26_Witness ==
  \E c, r \in Sockets :
    /\ c # r
    /\ status[c] = "closed"
    /\ status[r] = "connected"
    /\ ServerIds = {r}
    /\ GetPlayerCount = 1
    /\ toClient[r] # <<>>
    /\ toClient[r][Len(toClient[r])] = [type |-> "PLAYER_LEFT", id |-> c]

(***************************************************************************)
(* Properties of height queries on the grid's vertices and edges.          *)
(***************************************************************************)
\* TerrainPhysics.isWithinBounds for bounds of -size / 2 .. size / 2
IsWithinBounds(x, z, size) ==
  2 * x >= -size /\ 2 * x <= size /\ 2 * z >= -size /\ 2 * z <= size

\* C27: at the world coordinates of every grid vertex, the last row and
\* column included, getHeightAt returns the stored cell height; for every
\* point within the bounds it returns an interpolated height, not the
\* out-of-bounds fallback
C27_VertexHeightsExact ==
  (/\ query.op = "getHeightAt"
   /\ query.size = terrain.metadata.size
   /\ query.segments = terrain.metadata.segments) =>
     /\ \A row, col \in 0..query.segments :
          (/\ query.x = WorldCoord(col, query.size, query.segments)
           /\ query.z = WorldCoord(row, query.size, query.segments)) =>
            query.result = Num(terrain.heightmap[row * (query.segments + 1) + col + 1])
     /\ IsWithinBounds(query.x, query.z, query.size) => query.reads # {}


Centred == Abs(steeringAngle) <= CentredThreshold

SteeringBounded ==
  /\ steeringAngle >= -MAX_STEERING_ANGLE
  /\ steeringAngle <= MAX_STEERING_ANGLE

\* a frame of a loaded car during which no turn is requested
ReturnStep ==
  /\ isReady /\ isReady'
  /\ keys' = keys
  /\ Turn(keys) = 0

ReturnsTowardCentre ==
  ReturnStep =>
    IF Centred
    THEN steeringAngle' = steeringAngle
    ELSE /\ Sign(steeringAngle') \in {0, Sign(steeringAngle)}
         /\ Abs(steeringAngle') =
              Abs(steeringAngle) - MinOf(Abs(steeringAngle), STEERING_RETURN_SPEED)

\* C28: the steering angle stays within [-MAX_STEERING_ANGLE,
\* MAX_STEERING_ANGLE] whatever keys are pressed and however many frames
\* tick; on a frame with no turn requested an angle that is not centred moves
\* toward 0 by STEERING_RETURN_SPEED (by what is left of it on the last step)
\* and never changes sign, a centred one stays as it is; and once no turn is
\* requested any more the angle becomes centred and stays centred.
C28_SteeringReturns ==
  /\ []SteeringBounded
  /\ [][ReturnsTowardCentre]_vars
  /\ (<>[](Turn(keys) = 0)) => (<>[]Centred)

\* the angle was driven into the clamp and has come back by one return step
C28_Witness ==
  /\ isReady
  /\ Turn(keys) = 0
  /\ steeringAngle = MAX_STEERING_ANGLE - STEERING_RETURN_SPEED

\* the latest message is still within its own duration
WithinDuration == shown # NoShow /\ now < shown.at + shown.duration

\* C29: a message shown by show(message, duration) is visible until its own
\* duration has elapsed, whatever shows came before it.
C29_ShownForItsDuration ==
  WithinDuration => container.display = "block"

====
